---- MODULE Spec2Model ----
(***************************************************************************)
(* Model of the wellbeing scoring of tarunchauhan25/health-app:            *)
(*   - lib/wellbeingScoring.ts      score curves, smoothing, sample data   *)
(*   - context/WellbeingContext     WellbeingProvider (src/README.md)      *)
(*   - hooks/useWellbeingDataCollection   (src/unnamed/part_004)           *)
(*   - lib/wellbeingAggregator      WellbeingAggregator (part_005)         *)
(*   - app/(tabs)/status            StatusScreen (src/app/login.tsx)       *)
(*                                                                         *)
(* Numbers.  JavaScript numbers are modelled as exact rationals            *)
(* [n |-> numerator, d |-> denominator], kept in lowest terms with d > 0,  *)
(* so that two equal numbers are equal records.                            *)
(* Time.  A Date is an integer number of minutes since a UTC midnight.     *)
(* Dates.  A 'YYYY-MM-DD' string is the integer number of its UTC day;     *)
(* String.localeCompare on such strings is the order of these integers.    *)
(* Nullable values are sequences of length 0 (null) or 1.                  *)
(***************************************************************************)
EXTENDS Integers, Sequences, FiniteSets, TLC

VARIABLES
    now,                \* the wall clock (minutes, UTC)
    zone,               \* the device's time zone
    currentScores,      \* WellbeingProvider state: WellbeingScore | null
    dailyScores,        \* WellbeingProvider state: DailyWellbeingScores[]
    isLoading,          \* WellbeingProvider state
    isUsingSampleData,  \* WellbeingProvider state
    loadPending,        \* the mount effect's loadScores() has not run yet
    storage,            \* AsyncStorage: the two keys of the provider
    remote,             \* Supabase: wellbeing_scores row, wellbeing_daily_scores rows
    session,            \* supabase.auth.getSession() has a user (signed in)
    lastResult,         \* how the last updateScores call ended
    nUpdates,           \* committed updateScores calls (bounded)
    currentActivity,    \* StatusScreen state: the classified activity label
    activityConfidence, \* StatusScreen state
    conversationState,  \* StatusScreen state
    lastConversationStateRef,   \* StatusScreen ref
    conversationDurationRef,    \* StatusScreen ref (seconds)
    lastConversationChangeRef,  \* StatusScreen ref (a Date)
    lastActivityRef,    \* useWellbeingDataCollection ref: key of the last activity added
    lastConversationRef,\* useWellbeingDataCollection ref: key of the last conversation added
    activityHistory,    \* WellbeingAggregator.activityHistory
    conversationHistory,\* WellbeingAggregator.conversationHistory
    lastRead,           \* what the last read of the aggregator saw, and when
    call,               \* a call of a pure function: its name and arguments
    result,             \* what that call returned (empty until it returns)
    effectPending,      \* useWellbeingDataCollection: the update effect is due to run
    sinceTick,          \* updates committed since the hook's timer last fired
    talkedSeconds,      \* history: seconds the screen has tracked as talk so far
    possibleSleeping,   \* StatusScreen state
    sharedAudioLevel,   \* AudioProvider state audioLevel, as StatusScreen renders it
    intervalClosure,    \* what the interval callback's closure captured
    inactiveTimeRef,    \* StatusScreen ref (ticks)
    accelHistoryRef,    \* StatusScreen ref: magnitudes in hundredths of g
    shouldSleepAtTick,  \* history: the four sleep conditions held at the last tick
    sensorsEnabled,     \* SensorsProvider state
    locationPermission, \* SensorsProvider state
    taskRegistered,     \* TaskManager: background-location-task is registered
    nativeQueue,        \* native calls issued by the background tracking functions
    nToggles,           \* changes of sensorsEnabled so far (bounded)
    focused,            \* StatusScreen is the focused screen
    isMonitoring,       \* StatusScreen state
    accelSubscription,  \* StatusScreen ref: the subscription last stored, if any
    locationSubscription,   \* StatusScreen ref
    activeSubscriptions,    \* the sensor subscriptions that deliver samples
    pendingStarts,      \* startMonitoring calls awaiting watchPositionAsync
    nStarts             \* startMonitoring calls so far (bounded)

engineVars == <<currentScores, dailyScores, isLoading, isUsingSampleData,
                loadPending, storage, remote, session, lastResult, nUpdates>>

screenVars == <<currentActivity, activityConfidence, conversationState,
                lastConversationStateRef, conversationDurationRef,
                lastConversationChangeRef>>

collectVars == <<lastActivityRef, lastConversationRef, activityHistory,
                 conversationHistory, lastRead>>

calcVars == <<call, result>>

hookVars == <<effectPending, sinceTick>>

talkVars == <<talkedSeconds>>

sleepVars == <<possibleSleeping, sharedAudioLevel, intervalClosure,
               inactiveTimeRef, accelHistoryRef, shouldSleepAtTick>>

sensorVars == <<sensorsEnabled, locationPermission, taskRegistered, nativeQueue,
                nToggles>>

monitorVars == <<focused, isMonitoring, accelSubscription, locationSubscription,
                 activeSubscriptions, pendingStarts, nStarts>>

auxVars == <<talkVars, sleepVars, sensorVars, monitorVars>>

----------------------------------------------------------------------------
(* Bounds of the model *)

MaxNow == 2820

MaxUpdates == 2

MaxClock == 10200

MaxEvents == 3

----------------------------------------------------------------------------
(* JavaScript numbers as exact rationals *)

RECURSIVE GCD(_, _)
GCD(a, b) == IF b = 0 THEN a ELSE GCD(b, a % b)

Abs(x) == IF x < 0 THEN -x ELSE x

Rat(n, d) ==
    LET s == IF d < 0 THEN -1 ELSE 1
        g == GCD(Abs(n), Abs(d))
    IN  [n |-> (s * n) \div g, d |-> (s * d) \div g]

R(i) == [n |-> i, d |-> 1]

RAdd(a, b) == Rat(a.n * b.d + b.n * a.d, a.d * b.d)

RSub(a, b) == Rat(a.n * b.d - b.n * a.d, a.d * b.d)

RMul(a, b) == Rat(a.n * b.n, a.d * b.d)

RDiv(a, b) == Rat(a.n * b.d, a.d * b.n)

RLe(a, b) == a.n * b.d <= b.n * a.d

RLt(a, b) == a.n * b.d < b.n * a.d

RGe(a, b) == RLe(b, a)

RGt(a, b) == RLt(b, a)

RMax(a, b) == IF RGe(a, b) THEN a ELSE b

RMin(a, b) == IF RLe(a, b) THEN a ELSE b

\* Number(x.toFixed(1)): x rounded to one decimal, halves away from zero
ToFixed1(x) ==
    LET m == (2 * 10 * Abs(x.n) + x.d) \div (2 * x.d)
    IN  Rat((IF x.n < 0 THEN -1 ELSE 1) * m, 10)

----------------------------------------------------------------------------
(* lib/wellbeingScoring.ts: the three score curves *)

calculateSleepScoreUncapped(sleepHours) ==
    IF RGe(sleepHours, Rat(15, 2))
        THEN RAdd(R(90), RMul(RDiv(RSub(sleepHours, Rat(15, 2)), Rat(1, 2)), R(10)))
    ELSE IF RGe(sleepHours, R(7))
        THEN RAdd(R(80), RMul(RDiv(RSub(sleepHours, R(7)), Rat(1, 2)), R(10)))
    ELSE RMax(R(0), RMul(RDiv(sleepHours, R(4)), R(10)))

calculateSleepScore(sleepHours) ==
    IF RGe(sleepHours, R(8)) THEN R(100)
    ELSE IF RGe(sleepHours, Rat(15, 2))
        THEN RAdd(R(90), RMul(RDiv(RSub(sleepHours, Rat(15, 2)), Rat(1, 2)), R(10)))
    ELSE IF RGe(sleepHours, R(7))
        THEN RAdd(R(80), RMul(RDiv(RSub(sleepHours, R(7)), Rat(1, 2)), R(10)))
    ELSE IF RGe(sleepHours, R(6))
        THEN RAdd(R(60), RMul(RDiv(RSub(sleepHours, R(6)), R(1)), R(20)))
    ELSE IF RGe(sleepHours, R(5))
        THEN RAdd(R(30), RMul(RDiv(RSub(sleepHours, R(5)), R(1)), R(30)))
    ELSE IF RGe(sleepHours, R(4))
        THEN RAdd(R(10), RMul(RDiv(RSub(sleepHours, R(4)), R(1)), R(20)))
    ELSE RMax(R(0), RMul(RDiv(sleepHours, R(4)), R(10)))

\* the activity curve with too steep a segment from 10 to 15 minutes
calculatePhysicalActivityScoreSteep(activityMinutes) ==
    IF RGe(activityMinutes, R(30)) THEN R(100)
    ELSE IF RGe(activityMinutes, R(20))
        THEN RAdd(R(80), RMul(RDiv(RSub(activityMinutes, R(20)), R(10)), R(20)))
    ELSE IF RGe(activityMinutes, R(15))
        THEN RAdd(R(65), RMul(RDiv(RSub(activityMinutes, R(15)), R(5)), R(15)))
    ELSE IF RGe(activityMinutes, R(10))
        THEN RAdd(R(50), RMul(RDiv(RSub(activityMinutes, R(10)), R(5)), R(25)))
    ELSE IF RGe(activityMinutes, R(5))
        THEN RAdd(R(25), RMul(RDiv(RSub(activityMinutes, R(5)), R(5)), R(25)))
    ELSE RMax(R(0), RMul(RDiv(activityMinutes, R(5)), R(25)))

calculatePhysicalActivityScore(activityMinutes) ==
    IF RGe(activityMinutes, R(30)) THEN R(100)
    ELSE IF RGe(activityMinutes, R(20))
        THEN RAdd(R(80), RMul(RDiv(RSub(activityMinutes, R(20)), R(10)), R(20)))
    ELSE IF RGe(activityMinutes, R(15))
        THEN RAdd(R(65), RMul(RDiv(RSub(activityMinutes, R(15)), R(5)), R(15)))
    ELSE IF RGe(activityMinutes, R(10))
        THEN RAdd(R(50), RMul(RDiv(RSub(activityMinutes, R(10)), R(5)), R(15)))
    ELSE IF RGe(activityMinutes, R(5))
        THEN RAdd(R(25), RMul(RDiv(RSub(activityMinutes, R(5)), R(5)), R(25)))
    ELSE RMax(R(0), RMul(RDiv(activityMinutes, R(5)), R(25)))

calculateSocialInteractionScore(interactionMinutes) ==
    IF RGe(interactionMinutes, R(60)) THEN R(100)
    ELSE IF RGe(interactionMinutes, R(45))
        THEN RAdd(R(85), RMul(RDiv(RSub(interactionMinutes, R(45)), R(15)), R(15)))
    ELSE IF RGe(interactionMinutes, R(30))
        THEN RAdd(R(70), RMul(RDiv(RSub(interactionMinutes, R(30)), R(15)), R(15)))
    ELSE IF RGe(interactionMinutes, R(20))
        THEN RAdd(R(55), RMul(RDiv(RSub(interactionMinutes, R(20)), R(10)), R(15)))
    ELSE IF RGe(interactionMinutes, R(10))
        THEN RAdd(R(40), RMul(RDiv(RSub(interactionMinutes, R(10)), R(10)), R(15)))
    ELSE IF RGe(interactionMinutes, R(5))
        THEN RAdd(R(20), RMul(RDiv(RSub(interactionMinutes, R(5)), R(5)), R(20)))
    ELSE RMax(R(0), RMul(RDiv(interactionMinutes, R(5)), R(20)))

----------------------------------------------------------------------------
(* The JavaScript Date operations the code uses *)

\* The zones a device is run in: [before, after] are the UTC offsets (minutes)
\* in effect before and from the UTC hour `change` (a daylight-saving change
\* when they differ).
Zones == { [before |-> 0, after |-> 0, change |-> 0],
           [before |-> 60, after |-> 120, change |-> 60] }

\* -Date.getTimezoneOffset() at instant t
Offset(t) == IF t < zone.change THEN zone.before ELSE zone.after

\* the local wall-clock reading (minutes) of instant t
LocalWall(t) == t + Offset(t)

\* the instant whose local wall-clock reading is w
WallToUTC(w) == IF w - zone.before < zone.change THEN w - zone.before
                ELSE w - zone.after

\* d = new Date(t); d.setDate(d.getDate() + k): k local calendar days later,
\* the wall-clock time of day kept
SetDate(t, k) == WallToUTC(LocalWall(t) + 1440 * k)

\* date.getHours()
GetHours(t) == (LocalWall(t) \div 60) % 24

\* the local calendar day of instant t (getFullYear/getMonth/getDate)
LocalDay(t) == LocalWall(t) \div 1440

\* date.toISOString().split('T')[0]: the UTC calendar day
ToISODate(t) == t \div 1440

----------------------------------------------------------------------------
(* lib/wellbeingScoring.ts: daily scores, smoothing, overall, sample data *)

calculateDailyScores(metrics, t) ==
    [date              |-> ToISODate(t),
     sleep             |-> calculateSleepScore(metrics.sleepHours),
     physicalActivity  |-> calculatePhysicalActivityScore(metrics.physicalActivityMinutes),
     socialInteraction |-> calculateSocialInteractionScore(metrics.socialInteractionMinutes)]

\* EMA = alpha * new + (1 - alpha) * old, alpha = 0.3 (the default argument)
calculateExponentiallyWeightedScore(historicalScore, newDailyScore) ==
    LET alpha == Rat(3, 10)
    IN  RAdd(RMul(alpha, newDailyScore), RMul(RSub(R(1), alpha), historicalScore))

calculateOverallScore(scores) ==
    RDiv(RAdd(RAdd(scores.sleep, scores.physicalActivity), scores.socialInteraction), R(3))

\* Array.prototype.sort((a, b) => b.date.localeCompare(a.date)): a stable sort,
\* newest date first.  InsertByDate puts x behind every entry of the sorted s
\* that does not sort after it.
InsertByDate(s, x) ==
    LET k == Cardinality({i \in 1..Len(s) : s[i].date >= x.date})
    IN  SubSeq(s, 1, k) \o <<x>> \o SubSeq(s, k + 1, Len(s))

RECURSIVE SortByDateDesc(_)
SortByDateDesc(s) ==
    IF s = <<>> THEN <<>>
    ELSE InsertByDate(SortByDateDesc(SubSeq(s, 1, Len(s) - 1)), s[Len(s)])

\* clamp(base + variation, min, max).toFixed(1) for i = 0..9, in tenths:
\* sleep 85 + sin(0.6 (i+1)) 8, activity 78 + cos(0.4 (i+1)) 10,
\* social 72 + sin(0.7 (i+2)) 12
SampleSleepTenths == <<895, 925, 928, 904, 861, 815, 780, 770, 788, 828>>

SampleActivityTenths == <<872, 850, 816, 777, 738, 706, 686, 680, 690, 715>>

SampleSocialTenths == <<838, 824, 760, 678, 615, 602, 644, 722, 799, 839>>

SampleDays == Len(SampleSleepTenths)

sampleDaily(i, t) ==
    [date              |-> ToISODate(SetDate(t, -i)),
     sleep             |-> Rat(SampleSleepTenths[i + 1], 10),
     physicalActivity  |-> Rat(SampleActivityTenths[i + 1], 10),
     socialInteraction |-> Rat(SampleSocialTenths[i + 1], 10)]

generateSampleWellbeingData(t) ==
    LET daily  == SortByDateDesc([i \in 1..SampleDays |-> sampleDaily(i - 1, t)])
        latest == daily[1]
    IN  [dailyScores  |-> daily,
         currentScore |-> [sleep             |-> latest.sleep,
                           physicalActivity  |-> latest.physicalActivity,
                           socialInteraction |-> latest.socialInteraction,
                           overall           |-> ToFixed1(calculateOverallScore(latest)),
                           lastUpdated       |-> t]]

----------------------------------------------------------------------------
(* AsyncStorage and JSON *)

\* An AsyncStorage item is [kind, val]: kind "missing" (getItem gives null),
\* "malformed" (a string JSON.parse throws on) or "json" (the text of val).
Missing == [kind |-> "missing", val |-> <<>>]

Malformed == [kind |-> "malformed", val |-> <<>>]

JSONstringify(v) == [kind |-> "json", val |-> v]

JSONparse(item) == item.val

JSONparseThrows(item) == item.kind = "malformed"

\* `if (scoresJson)`: getItem returned a string
IsString(item) == item.kind # "missing"

----------------------------------------------------------------------------
(* context/WellbeingContext: WellbeingProvider *)

\* applySampleData: the state after generateSampleWellbeingData(10)
applySampleData(t) ==
    LET sample == generateSampleWellbeingData(t)
    IN  [currentScores     |-> <<sample.currentScore>>,
         dailyScores       |-> sample.dailyScores,
         isUsingSampleData |-> TRUE]

\* loadScores: the provider state it leaves, from the state [currentScores,
\* dailyScores, isUsingSampleData] it starts in and the storage st.  A throw of
\* JSON.parse is caught and keeps what was set before it.
loadScores(state, st, t) ==
    LET hasScores == IsString(st.scores)
        afterScores ==
            IF hasScores
            THEN [state EXCEPT !.currentScores = JSONparse(st.scores),
                               !.isUsingSampleData = FALSE]
            ELSE state
        hasDaily == IsString(st.daily)
        daily == JSONparse(st.daily)
        afterDaily ==
            IF hasDaily THEN [afterScores EXCEPT !.dailyScores = daily]
            ELSE afterScores
        dataLoaded == hasScores \/ (hasDaily /\ Len(daily) > 0)
    IN  IF hasScores /\ JSONparseThrows(st.scores) THEN state
        ELSE IF hasDaily /\ JSONparseThrows(st.daily) THEN afterScores
        ELSE IF ~dataLoaded THEN applySampleData(t)
        ELSE afterDaily

\* saveScores: the two setItem calls; with fail = "first" the first call
\* rejects, so the second is never made.  The rejection is caught and logged.
saveScores(st, scores, daily, fail) ==
    IF fail = "first"
    THEN [storage |-> st, writes |-> 1, threw |-> FALSE]
    ELSE [storage |-> [scores |-> JSONstringify(<<scores>>),
                       daily  |-> JSONstringify(daily)],
          writes |-> 2, threw |-> FALSE]

\* upsert on wellbeing_daily_scores, onConflict: 'user_id,date'
UpsertDaily(rows, row) == {r \in rows : r.date # row.date} \cup {row}

\* The database part of updateScores (getSession, then syncToDatabase's two
\* upserts).  fail is "none", "throw" (auth.getSession rejects: caught, nothing
\* is sent) or "dailyError" (the daily upsert returns an error and writes
\* nothing: logged).
syncToDatabase(db, scores, dailyScore, hasSession, fail, t) ==
    IF fail = "throw" \/ ~hasSession
    THEN [remote |-> db, upserts |-> 0, threw |-> FALSE]
    ELSE [remote |->
            [score |-> <<[scores EXCEPT !.lastUpdated = t]>>,
             daily |-> IF fail = "dailyError" THEN db.daily
                       ELSE UpsertDaily(db.daily, dailyScore)],
          upserts |-> 2, threw |-> FALSE]

\* `updatedDailyScores.length > 30`
DailyCap == 30

\* The provider state a call reads through its closure
ProviderState ==
    [currentScores     |-> currentScores,
     dailyScores       |-> dailyScores,
     isUsingSampleData |-> isUsingSampleData]

\* updateScores, the new current score: smoothed against the previous real
\* score, or today's scores when there is none; overall computed last.
updatedScoresAgainstShown(state, todayScores, t) ==
    LET dims ==
            IF state.currentScores # <<>>
            THEN [sleep |-> calculateExponentiallyWeightedScore(
                                state.currentScores[1].sleep, todayScores.sleep),
                  physicalActivity |-> calculateExponentiallyWeightedScore(
                                state.currentScores[1].physicalActivity,
                                todayScores.physicalActivity),
                  socialInteraction |-> calculateExponentiallyWeightedScore(
                                state.currentScores[1].socialInteraction,
                                todayScores.socialInteraction)]
            ELSE [sleep             |-> todayScores.sleep,
                  physicalActivity  |-> todayScores.physicalActivity,
                  socialInteraction |-> todayScores.socialInteraction]
    IN  [sleep             |-> dims.sleep,
         physicalActivity  |-> dims.physicalActivity,
         socialInteraction |-> dims.socialInteraction,
         overall           |-> calculateOverallScore(dims),
         lastUpdated       |-> t]

updatedScores(state, todayScores, t) ==
    LET baselineScores == IF state.isUsingSampleData THEN <<>> ELSE state.currentScores
        dims ==
            IF baselineScores # <<>>
            THEN [sleep |-> calculateExponentiallyWeightedScore(
                                baselineScores[1].sleep, todayScores.sleep),
                  physicalActivity |-> calculateExponentiallyWeightedScore(
                                baselineScores[1].physicalActivity,
                                todayScores.physicalActivity),
                  socialInteraction |-> calculateExponentiallyWeightedScore(
                                baselineScores[1].socialInteraction,
                                todayScores.socialInteraction)]
            ELSE [sleep             |-> todayScores.sleep,
                  physicalActivity  |-> todayScores.physicalActivity,
                  socialInteraction |-> todayScores.socialInteraction]
    IN  [sleep             |-> dims.sleep,
         physicalActivity  |-> dims.physicalActivity,
         socialInteraction |-> dims.socialInteraction,
         overall           |-> calculateOverallScore(dims),
         lastUpdated       |-> t]

\* updateScores, the new daily list: today's entry replaces the entry of the
\* same date or is pushed; past the cap the array is shift()ed; then sorted.
updatedDailyScores(state, todayScores) ==
    LET baselineDaily == IF state.isUsingSampleData THEN <<>> ELSE state.dailyScores
        found == {i \in 1..Len(baselineDaily) : baselineDaily[i].date = todayScores.date}
        existingIndex == IF found = {} THEN -1
                         ELSE CHOOSE i \in found : \A j \in found : i <= j
        pushed == Append(baselineDaily, todayScores)
        updated ==
            IF existingIndex >= 0
            THEN [baselineDaily EXCEPT ![existingIndex] = todayScores]
            ELSE IF Len(pushed) > DailyCap THEN Tail(pushed)
            ELSE pushed
    IN  SortByDateDesc(updated)

\* What the persistence layer does during one call: which setItem rejects
\* and how the database requests end.
Environments ==
    { [cacheFail |-> "none",   dbFail |-> "none"],
      [cacheFail |-> "first",  dbFail |-> "none"],
      [cacheFail |-> "none",   dbFail |-> "throw"],
      [cacheFail |-> "none",   dbFail |-> "dailyError"] }

NoMetrics == [sleepHours |-> R(0), physicalActivityMinutes |-> R(0),
              socialInteractionMinutes |-> R(0)]

\* how a call of updateScores ended: whether the promise rejected, and the
\* setItem calls and database requests it issued
Result(threw, writes, upserts) ==
    [threw |-> threw, cacheWrites |-> writes, upserts |-> upserts]

\* updateScores(metrics): state is set first, then saved, then synced; every
\* failure of the two is caught inside saveScores / syncToDatabase.
updateScoresRollingBack(metrics, env) ==
    LET todayScores == calculateDailyScores(metrics, now)
        scores == updatedScores(ProviderState, todayScores, now)
        daily  == updatedDailyScores(ProviderState, todayScores)
        saved  == saveScores(storage, scores, daily, env.cacheFail)
        synced == syncToDatabase(remote, scores, todayScores, session,
                                 env.dbFail, now)
        failed == env.cacheFail # "none" \/ env.dbFail # "none"
    IN  /\ currentScores' = IF failed THEN currentScores ELSE <<scores>>
        /\ dailyScores' = IF failed THEN dailyScores ELSE daily
        /\ isUsingSampleData' = IF failed THEN isUsingSampleData ELSE FALSE
        /\ storage' = saved.storage
        /\ remote' = synced.remote
        /\ nUpdates' = nUpdates + 1
        /\ lastResult' = Result(saved.threw \/ synced.threw, saved.writes,
                                synced.upserts)

updateScores(metrics, env) ==
    LET todayScores == calculateDailyScores(metrics, now)
        scores == updatedScores(ProviderState, todayScores, now)
        daily  == updatedDailyScores(ProviderState, todayScores)
        saved  == saveScores(storage, scores, daily, env.cacheFail)
        synced == syncToDatabase(remote, scores, todayScores, session,
                                 env.dbFail, now)
    IN  /\ currentScores' = <<scores>>
        /\ dailyScores' = daily
        /\ isUsingSampleData' = FALSE
        /\ storage' = saved.storage
        /\ remote' = synced.remote
        /\ nUpdates' = nUpdates + 1
        /\ lastResult' = Result(saved.threw \/ synced.threw, saved.writes,
                                synced.upserts)

\* .order('date', { ascending: false }) over the selected rows
RECURSIVE OrderByDateDesc(_)
OrderByDateDesc(rows) ==
    IF rows = {} THEN <<>>
    ELSE LET top == CHOOSE r \in rows : \A q \in rows : q.date <= r.date
         IN  <<top>> \o OrderByDateDesc(rows \ {top})

\* refreshScores: without a session it is loadScores; when a request rejects
\* (fail "throw") the catch falls back to loadScores; otherwise the row and
\* the rows of the last 30 days are read ("dailyError": that select returns an
\* error; a missing row is an error of .single()).  The closure's
\* currentScores and isUsingSampleData decide the save.
refreshScores(state, st, db, hasSession, env, t) ==
    LET row      == db.score
        gotScore == row # <<>>
        gotDaily == env.dbFail # "dailyError"
        cutoff   == ToISODate(SetDate(t, -30))
        daily    == OrderByDateDesc({r \in db.daily : r.date >= cutoff})
        doSave   == gotDaily /\ state.currentScores # <<>> /\ ~state.isUsingSampleData
    IN  IF ~hasSession \/ env.dbFail = "throw"
        THEN [state |-> loadScores(state, st, t), storage |-> st]
        ELSE [state |-> [currentScores     |-> IF gotScore THEN row ELSE state.currentScores,
                         dailyScores       |-> IF gotDaily THEN daily ELSE state.dailyScores,
                         isUsingSampleData |-> state.isUsingSampleData],
              storage |-> IF doSave
                          THEN saveScores(st, state.currentScores[1], daily,
                                          env.cacheFail).storage
                          ELSE st]

----------------------------------------------------------------------------
(* Inputs and initial contents *)

\* Metrics snapshots handed to updateScores: nothing; over every target;
\* 6.5 h of sleep, 2 active minutes and no conversation.
MetricsInputs ==
    { NoMetrics,
      [sleepHours |-> R(9), physicalActivityMinutes |-> R(45),
       socialInteractionMinutes |-> R(90)],
      [sleepHours |-> Rat(13, 2), physicalActivityMinutes |-> R(2),
       socialInteractionMinutes |-> R(0)] }

IsZeroMetrics(m) ==
    ~(RGt(m.sleepHours, R(0)) \/ RGt(m.physicalActivityMinutes, R(0))
        \/ RGt(m.socialInteractionMinutes, R(0)))

\* to the late evening of the next day
AdvanceSteps == {2820}

\* What days of use with every target met leave behind on day 0: every
\* daily score and the smoothed score are 100.
PerfectDay(d) == [date |-> d, sleep |-> R(100), physicalActivity |-> R(100),
                  socialInteraction |-> R(100)]

PerfectScore == [sleep |-> R(100), physicalActivity |-> R(100),
                 socialInteraction |-> R(100), overall |-> R(100), lastUpdated |-> 0]

\* the daily list after n such days, the last of them day 0
PerfectHistory(n) == [i \in 1..n |-> PerfectDay(1 - i)]

PerfectRows(n) == {PerfectDay(1 - i) : i \in 1..n}

\* a first start, a corrupted cache, a cache whose second key is corrupted,
\* and the cache one day of use leaves
InitialStorage ==
    { [scores |-> Missing, daily |-> Missing],
      [scores |-> Malformed, daily |-> Missing],
      [scores |-> JSONstringify(<<PerfectScore>>), daily |-> Malformed],
      [scores |-> JSONstringify(<<PerfectScore>>),
       daily  |-> JSONstringify(PerfectHistory(1))] }

InitialRemote ==
    { [score |-> <<>>, daily |-> {}],
      [score |-> <<PerfectScore>>, daily |-> PerfectRows(1)] }

----------------------------------------------------------------------------
(* The scoring engine: WellbeingProvider and the collection hook's timer *)

\* the status screen, the collection hook and the aggregator as constructed
\* (useState / useRef initial values, empty histories)
StatusScreenMounted ==
    /\ currentActivity = "unknown"
    /\ activityConfidence = 0
    /\ conversationState = "silent"
    /\ lastConversationStateRef = "silent"
    /\ conversationDurationRef = 0
    /\ lastConversationChangeRef = now
    /\ lastActivityRef = <<>>
    /\ lastConversationRef = <<>>
    /\ activityHistory = <<>>
    /\ conversationHistory = <<>>
    /\ lastRead = [time |-> now, activity |-> <<>>, conversation |-> <<>>]
    /\ effectPending = TRUE
    /\ sinceTick = 0
    /\ talkedSeconds = 0
    /\ possibleSleeping = FALSE
    /\ sharedAudioLevel = 0
    /\ intervalClosure = [possibleSleeping |-> FALSE, sharedAudioLevel |-> 0]
    /\ inactiveTimeRef = 0
    /\ accelHistoryRef = <<>>
    /\ shouldSleepAtTick = FALSE

\* SensorsProvider after its first render and effects: sensors enabled, no
\* location permission yet, so no background tracking call has been made
SensorsMounted ==
    /\ sensorsEnabled = TRUE
    /\ locationPermission = FALSE
    /\ nativeQueue = <<>>
    /\ nToggles = 0

\* StatusScreen before it is focused: not monitoring, no subscription
MonitoringMounted ==
    /\ focused = FALSE
    /\ isMonitoring = FALSE
    /\ accelSubscription = <<>>
    /\ locationSubscription = <<>>
    /\ activeSubscriptions = {}
    /\ pendingStarts = {}
    /\ nStarts = 0

Mounted ==
    /\ StatusScreenMounted
    /\ MonitoringMounted
    /\ SensorsMounted
    /\ taskRegistered = FALSE

\* the provider as constructed (the useState initial values), its mount
\* effect not yet run
Constructed ==
    /\ now = 0
    /\ zone \in Zones
    /\ currentScores = <<>>
    /\ dailyScores = <<>>
    /\ isLoading = TRUE
    /\ isUsingSampleData = FALSE
    /\ loadPending = TRUE
    /\ session \in BOOLEAN
    /\ lastResult = Result(FALSE, 0, 0)
    /\ nUpdates = 0

\* no pure function is being called
NoCall ==
    /\ call = <<>>
    /\ result = <<>>

Init ==
    /\ Constructed
    /\ Mounted
    /\ NoCall
    /\ storage \in InitialStorage
    /\ remote \in InitialRemote

\* a start on the day after DailyCap days of use
InitCap ==
    /\ Constructed
    /\ Mounted
    /\ NoCall
    /\ storage = [scores |-> JSONstringify(<<PerfectScore>>),
                  daily  |-> JSONstringify(PerfectHistory(DailyCap))]
    /\ remote = [score |-> <<PerfectScore>>, daily |-> PerfectRows(DailyCap)]

\* the mount effect: loadScores().  It is taken to complete before a screen
\* calls the provider.
LoadCommit ==
    /\ loadPending
    /\ LET new == loadScores(ProviderState, storage, now)
       IN  /\ currentScores' = new.currentScores
           /\ dailyScores' = new.dailyScores
           /\ isUsingSampleData' = new.isUsingSampleData
    /\ isLoading' = FALSE
    /\ loadPending' = FALSE
    /\ UNCHANGED <<auxVars, calcVars, now, zone, storage, remote, session, lastResult, nUpdates>>
    /\ UNCHANGED <<screenVars, collectVars>>

LoadScores ==
    /\ LoadCommit
    /\ UNCHANGED hookVars

\* a caller invokes the exposed updateScores(metrics)
UpdateScores ==
    /\ ~loadPending
    /\ nUpdates < MaxUpdates
    /\ \E metrics \in MetricsInputs, env \in Environments :
          updateScores(metrics, env)
    /\ UNCHANGED <<auxVars, hookVars, calcVars, now, zone, isLoading, loadPending, session>>
    /\ UNCHANGED <<screenVars, collectVars>>

\* useWellbeingDataCollection.updateWellbeingScores, on the metrics that
\* aggregator.calculateTodayMetrics() returned: it calls updateScores only
\* when there is meaningful data
updateWellbeingScores(metrics, env) ==
    IF RGt(metrics.sleepHours, R(0))
         \/ RGt(metrics.physicalActivityMinutes, R(0))
         \/ RGt(metrics.socialInteractionMinutes, R(0))
    THEN updateScores(metrics, env)
    ELSE UNCHANGED <<currentScores, dailyScores, isUsingSampleData,
                     storage, remote, lastResult, nUpdates>>

\* the hook's five-minute timer fires
CollectionTick ==
    /\ ~loadPending
    /\ nUpdates < MaxUpdates
    /\ \E metrics \in MetricsInputs, env \in Environments :
          updateWellbeingScores(metrics, env)
    /\ UNCHANGED <<auxVars, hookVars, calcVars, now, zone, isLoading, loadPending, session>>
    /\ UNCHANGED <<screenVars, collectVars>>

\* a screen calls refreshScores()
RefreshScores ==
    /\ ~loadPending
    /\ \E env \in Environments :
          LET new == refreshScores(ProviderState, storage, remote, session, env, now)
          IN  /\ currentScores' = new.state.currentScores
              /\ dailyScores' = new.state.dailyScores
              /\ isUsingSampleData' = new.state.isUsingSampleData
              /\ storage' = new.storage
    /\ isLoading' = FALSE
    /\ UNCHANGED <<auxVars, hookVars, calcVars, now, zone, loadPending, remote, session, lastResult, nUpdates>>
    /\ UNCHANGED <<screenVars, collectVars>>

\* time passes
Advance ==
    /\ ~loadPending
    /\ \E d \in AdvanceSteps :
          /\ now + d <= MaxNow
          /\ now' = now + d
    /\ UNCHANGED <<auxVars, hookVars, calcVars, zone, engineVars, screenVars, collectVars>>

(***************************************************************************)
(* Data collection: StatusScreen renders and its one-second timer, the     *)
(* useWellbeingDataCollection effects, and the WellbeingAggregator.        *)
(***************************************************************************)

\* WellbeingAggregator.MAX_HISTORY_DAYS
MAX_HISTORY_DAYS == 7

\* WellbeingAggregator.addActivity: push, then keep what is not older than
\* the cutoff (now, moved back seven calendar days on the local clock)
addActivity(history, activity, t) ==
    LET pushed == Append(history, activity)
        cutoff == SetDate(t, 0 - MAX_HISTORY_DAYS)
    IN  SelectSeq(pushed, LAMBDA a : a.timestamp >= cutoff)

\* WellbeingAggregator.addConversation
addConversation(history, conversation, t) ==
    LET pushed == Append(history, conversation)
        cutoff == SetDate(t, 0 - MAX_HISTORY_DAYS)
    IN  SelectSeq(pushed, LAMBDA c : c.timestamp >= cutoff)

\* WellbeingAggregator.getActivityHistory: a copy of the list as it is
getActivityHistory == activityHistory

\* WellbeingAggregator.getConversationHistory
getConversationHistory == conversationHistory

\* what classifyActivity can set in one tick
ClassifierOutputs ==
    { [activity |-> "stationary", confidence |-> 95],
      [activity |-> "walking", confidence |-> 80] }

\* what detectConversation can set in one tick
ConversationStates == {"silent", "talking"}

\* the clock steps of the collection specification, in minutes
WaitSteps == {5040, 5100}

\* the two data effects of useWellbeingDataCollection, run after a render of
\* StatusScreen at time t with the given state and refs
dataEffects(activity, confidence, conv, lastStateRef, durationRef, t) ==
    LET activityKey == <<[activity |-> activity, time |-> t]>>
        conversationKey == <<[state |-> conv, time |-> t]>>
    IN  /\ IF activityKey # lastActivityRef
           THEN /\ activityHistory' =
                     addActivity(activityHistory,
                                 [activity |-> activity, confidence |-> confidence,
                                  timestamp |-> t], t)
                /\ lastActivityRef' = activityKey
           ELSE UNCHANGED <<activityHistory, lastActivityRef>>
        /\ IF conv # lastStateRef /\ conversationKey # lastConversationRef
           THEN /\ conversationHistory' =
                     addConversation(conversationHistory,
                                     [state |-> conv, timestamp |-> t,
                                      duration |-> durationRef], t)
                /\ lastConversationRef' = conversationKey
           ELSE UNCHANGED <<conversationHistory, lastConversationRef>>

\* StatusScreen renders again (a sensor callback set some state) and the
\* hook's effects run
Render ==
    /\ Len(activityHistory) < MaxEvents
    /\ Len(conversationHistory) < MaxEvents
    /\ dataEffects(currentActivity, activityConfidence, conversationState,
                   lastConversationStateRef, conversationDurationRef, now)
    /\ UNCHANGED <<auxVars, hookVars, calcVars, now, zone, engineVars, screenVars, lastRead>>

\* StatusScreen's one-second interval callback, the render it causes and the
\* hook's effects after that render
tick(c, newState) ==
          /\ currentActivity' = c.activity
          /\ activityConfidence' = c.confidence
          /\ conversationState' = newState
          /\ IF conversationState \in {"talking", "conversation"}
             THEN /\ lastConversationChangeRef' =
                        IF lastConversationStateRef # conversationState
                        THEN now ELSE lastConversationChangeRef
                  /\ lastConversationStateRef' = conversationState
                  /\ conversationDurationRef' =
                        (now - lastConversationChangeRef') * 60
             ELSE /\ lastConversationStateRef' = "silent"
                  /\ conversationDurationRef' =
                        IF lastConversationStateRef # "silent"
                        THEN 0 ELSE conversationDurationRef
                  /\ UNCHANGED lastConversationChangeRef
          /\ dataEffects(currentActivity', activityConfidence', conversationState',
                         lastConversationStateRef', conversationDurationRef', now)

\* the interval callback with detectConversation setting one of the given
\* states
TickTo(states) ==
    /\ Len(activityHistory) < MaxEvents
    /\ Len(conversationHistory) < MaxEvents
    /\ \E c \in ClassifierOutputs
                  \cup {[activity |-> currentActivity,
                         confidence |-> activityConfidence]},
          newState \in states :
          tick(c, newState)
    /\ UNCHANGED <<auxVars, hookVars, calcVars, now, zone, engineVars, lastRead>>

Tick == TickTo(ConversationStates)

\* a caller reads the aggregator's histories
ReadHistory ==
    /\ lastRead' = [time |-> now, activity |-> getActivityHistory,
                    conversation |-> getConversationHistory]
    /\ UNCHANGED <<auxVars, hookVars, calcVars, now, zone, engineVars, screenVars, lastActivityRef,
                   lastConversationRef, activityHistory, conversationHistory>>

\* time passes while the status screen is open
Wait ==
    /\ \E d \in WaitSteps :
          /\ now + d <= MaxClock
          /\ now' = now + d
    /\ UNCHANGED <<auxVars, hookVars, calcVars, zone, engineVars, screenVars, collectVars>>


vars == <<now, zone, engineVars, screenVars, collectVars, calcVars, hookVars,
          auxVars>>

Next ==
    \/ LoadScores
    \/ UpdateScores
    \/ CollectionTick
    \/ RefreshScores
    \/ Advance

Spec == Init /\ [][Next]_vars

SpecCap == InitCap /\ [][Next]_vars

\* the status screen collecting data, the provider left as constructed
InitCollect ==
    /\ Constructed
    /\ Mounted
    /\ NoCall
    /\ session = FALSE
    /\ storage = [scores |-> Missing, daily |-> Missing]
    /\ remote = [score |-> <<>>, daily |-> {}]

NextCollect ==
    \/ Render
    \/ Tick
    \/ ReadHistory
    \/ Wait

SpecCollect == InitCollect /\ [][NextCollect]_vars

-----------------------------------------------------------------------------
(* lib/wellbeingScoring.ts and the aggregator: metrics from the event lists *)

\* d = new Date(date); d.setHours(..): the instant of the local day of `date`
\* whose wall-clock minute of the day is w
SetHours(date, w) == WallToUTC(LocalDay(date) * 1440 + w)

\* a.timestamp >= dayStart && a.timestamp <= dayEnd, with dayStart 00:00:00.000
\* and dayEnd 23:59:59.999 of the local day of `date` (timestamps are whole
\* minutes, so the last instant of the day is its minute 1439)
InDay(timestamp, date) ==
    /\ timestamp >= SetHours(date, 0)
    /\ timestamp <= SetHours(date, 1439)

\* the loop with the night ending before 8 o'clock
RECURSIVE SleepMinutesBeforeEight(_, _)
SleepMinutesBeforeEight(dayActivities, i) ==
    IF i >= Len(dayActivities) THEN 0
    ELSE LET current == dayActivities[i]
             next    == dayActivities[i + 1]
             hour    == GetHours(current.timestamp)
         IN  (IF /\ current.activity = "sleeping"
                 /\ current.confidence >= 70
                 /\ (hour >= 21 \/ hour < 8)
              THEN next.timestamp - current.timestamp
              ELSE 0)
             + SleepMinutesBeforeEight(dayActivities, i + 1)

\* the loop over consecutive pairs (current, next) of the day's events: the
\* minutes from a confident sleeping event at a night hour to the next event
RECURSIVE SleepMinutes(_, _)
SleepMinutes(dayActivities, i) ==
    IF i >= Len(dayActivities) THEN 0
    ELSE LET current == dayActivities[i]
             next    == dayActivities[i + 1]
             hour    == GetHours(current.timestamp)
         IN  (IF /\ current.activity = "sleeping"
                 /\ current.confidence >= 70
                 /\ (hour >= 21 \/ hour <= 8)
              THEN next.timestamp - current.timestamp
              ELSE 0)
             + SleepMinutes(dayActivities, i + 1)

calculateSleepHoursFromActivities(activities, date) ==
    LET dayActivities == SelectSeq(activities, LAMBDA a : InDay(a.timestamp, date))
    IN  Rat(SleepMinutes(dayActivities, 1), 60)

\* every label weighted alike
ActivityWeightUnweighted(activity) == 10

\* the weight of an activity label, in tenths (walking 1.0, running 1.5,
\* cycling 1.3); 0 for a label that is not physical activity
ActivityWeightTenths(activity) ==
    CASE activity = "walking" -> 10
      [] activity = "running" -> 15
      [] activity = "cycling" -> 13
      [] OTHER -> 0

\* the loop over consecutive pairs: tenths of weighted minutes
RECURSIVE ActiveTenths(_, _)
ActiveTenths(dayActivities, i) ==
    IF i >= Len(dayActivities) THEN 0
    ELSE LET current == dayActivities[i]
             next    == dayActivities[i + 1]
         IN  (IF /\ current.activity \in {"walking", "running", "cycling"}
                 /\ current.confidence >= 60
              THEN (next.timestamp - current.timestamp)
                     * ActivityWeightTenths(current.activity)
              ELSE 0)
             + ActiveTenths(dayActivities, i + 1)

calculatePhysicalActivityMinutesFromActivities(activities, date) ==
    LET dayActivities == SelectSeq(activities, LAMBDA a : InDay(a.timestamp, date))
    IN  Rat(ActiveTenths(dayActivities, 1), 10)

\* the seconds of the talking / conversation events of a list
RECURSIVE InteractionSeconds(_, _)
InteractionSeconds(dayConversations, i) ==
    IF i > Len(dayConversations) THEN 0
    ELSE (IF dayConversations[i].state \in {"talking", "conversation"}
          THEN dayConversations[i].duration ELSE 0)
         + InteractionSeconds(dayConversations, i + 1)

calculateSocialInteractionMinutesFromConversations(conversations, date) ==
    LET dayConversations ==
            SelectSeq(conversations, LAMBDA c : InDay(c.timestamp, date))
    IN  Rat(InteractionSeconds(dayConversations, 1), 60)

\* the metrics of the day the clock shows, whatever date is asked about
calculateMetricsForDateOfNow(activities, conversations, date) ==
    [sleepHours |-> calculateSleepHoursFromActivities(activities, now),
     physicalActivityMinutes |->
         calculatePhysicalActivityMinutesFromActivities(activities, now),
     socialInteractionMinutes |->
         calculateSocialInteractionMinutesFromConversations(conversations, now)]

\* WellbeingAggregator.calculateMetricsForDate: the events of the local
\* calendar day of `date`, handed to the three extractions
calculateMetricsForDate(activities, conversations, date) ==
    LET SameDate(timestamp) == LocalDay(timestamp) = LocalDay(date)
        activityData     == SelectSeq(activities, LAMBDA a : SameDate(a.timestamp))
        conversationData == SelectSeq(conversations, LAMBDA c : SameDate(c.timestamp))
    IN  [sleepHours |-> calculateSleepHoursFromActivities(activityData, date),
         physicalActivityMinutes |->
             calculatePhysicalActivityMinutesFromActivities(activityData, date),
         socialInteractionMinutes |->
             calculateSocialInteractionMinutesFromConversations(conversationData, date)]

\* WellbeingAggregator.calculateTodayMetrics at instant t
calculateTodayMetrics(activities, conversations, t) ==
    [sleepHours |-> calculateSleepHoursFromActivities(activities, t),
     physicalActivityMinutes |->
         calculatePhysicalActivityMinutesFromActivities(activities, t),
     socialInteractionMinutes |->
         calculateSocialInteractionMinutesFromConversations(conversations, t)]

-----------------------------------------------------------------------------
(* The pure functions, each applied to inputs drawn from bounded sets *)

\* wall-clock readings (minutes) of the events of the drawn histories:
\* day 1 at 06:00, 06:10 and 06:25, day 1 at 23:00, day 2 at 06:00
EventWallTimes == {1800, 1810, 1825, 2820, 3240}

\* the (label, confidence) pairs of the drawn activity events
ActivitySamples ==
    { [activity |-> "sleeping",   confidence |-> 90],
      [activity |-> "sleeping",   confidence |-> 70],
      [activity |-> "sleeping",   confidence |-> 69],
      [activity |-> "walking",    confidence |-> 80],
      [activity |-> "walking",    confidence |-> 59],
      [activity |-> "running",    confidence |-> 60],
      [activity |-> "cycling",    confidence |-> 90],
      [activity |-> "stationary", confidence |-> 95] }

\* the elements of a set of integers in increasing order
RECURSIVE Ascending(_)
Ascending(T) ==
    IF T = {} THEN <<>>
    ELSE LET m == CHOOSE x \in T : \A y \in T : x <= y
         IN  <<m>> \o Ascending(T \ {m})

\* the histories the aggregator can hold: events in the order they were
\* added, that is in the order of their timestamps
ActivityLists ==
    UNION { { LET ts == Ascending(T)
              IN  [i \in 1..Len(ts) |->
                     [timestamp  |-> WallToUTC(ts[i]),
                      activity   |-> f[ts[i]].activity,
                      confidence |-> f[ts[i]].confidence]] :
              f \in [T -> ActivitySamples] } :
            T \in {T \in SUBSET EventWallTimes : Cardinality(T) <= MaxEvents} }

ConversationLists ==
    { <<>>,
      << [state |-> "talking", timestamp |-> WallToUTC(2160), duration |-> 600],
         [state |-> "silent", timestamp |-> WallToUTC(2170), duration |-> 300],
         [state |-> "conversation", timestamp |-> WallToUTC(3420), duration |-> 1800] >> }

\* the dates asked about: day 1 and day 2 at noon (local)
CalcDates == {WallToUTC(2160), WallToUTC(3600)}

MetricsCalls ==
    [op : {"calculateMetricsForDate"}, activities : ActivityLists,
     conversations : ConversationLists, date : CalcDates]

Calling(op) ==
    /\ call # <<>>
    /\ call[1].op = op
    /\ result = <<>>

Returned(op) ==
    /\ call # <<>>
    /\ call[1].op = op
    /\ result # <<>>

CalculateMetricsForDate ==
    /\ Calling("calculateMetricsForDate")
    /\ result' = <<calculateMetricsForDate(call[1].activities,
                                           call[1].conversations, call[1].date)>>
    /\ UNCHANGED <<auxVars, hookVars, call, now, zone, engineVars, screenVars, collectVars>>

\* wall-clock minutes of day 1 around the ends of the night: 08:59, 09:00,
\* 20:59, 21:00, 23:00
SleepWallTimes == {1979, 1980, 2699, 2700, 2820}

SleepSamples ==
    { [activity |-> "sleeping", confidence |-> 90],
      [activity |-> "sleeping", confidence |-> 70],
      [activity |-> "sleeping", confidence |-> 69],
      [activity |-> "walking",  confidence |-> 80] }

SleepLists ==
    UNION { { LET ts == Ascending(T)
              IN  [i \in 1..Len(ts) |->
                     [timestamp  |-> WallToUTC(ts[i]),
                      activity   |-> f[ts[i]].activity,
                      confidence |-> f[ts[i]].confidence]] :
              f \in [T -> SleepSamples] } :
            T \in {T \in SUBSET SleepWallTimes : Cardinality(T) <= MaxEvents} }

SleepCalls ==
    [op : {"calculateSleepHoursFromActivities"}, activities : SleepLists,
     date : CalcDates]

CalculateSleepHours ==
    /\ Calling("calculateSleepHoursFromActivities")
    /\ result' = <<calculateSleepHoursFromActivities(call[1].activities,
                                                     call[1].date)>>
    /\ UNCHANGED <<auxVars, hookVars, call, now, zone, engineVars, screenVars, collectVars>>

\* the inputs of the curves: sleep hours by quarters of an hour, activity
\* minutes by half minutes, social minutes by minutes
CurveInputs(curve) ==
    CASE curve = "sleep"    -> {Rat(q, 4) : q \in 0..40}
      [] curve = "activity" -> {Rat(h, 2) : h \in 0..70}
      [] curve = "social"   -> {R(m) : m \in 0..65}

\* a curve applied to two inputs, the first not above the second
CurveCalls ==
    UNION { { [op |-> "curve", curve |-> c, low |-> x, high |-> y] :
              <<x, y>> \in {p \in CurveInputs(c) \X CurveInputs(c) : RLe(p[1], p[2])} } :
            c \in {"sleep", "activity", "social"} }

ScoreCurve(curve, v) ==
    CASE curve = "sleep"    -> calculateSleepScore(v)
      [] curve = "activity" -> calculatePhysicalActivityScore(v)
      [] curve = "social"   -> calculateSocialInteractionScore(v)

ApplyCurve ==
    /\ Calling("curve")
    /\ result' = <<[low  |-> ScoreCurve(call[1].curve, call[1].low),
                    high |-> ScoreCurve(call[1].curve, call[1].high)]>>
    /\ UNCHANGED <<auxVars, hookVars, call, now, zone, engineVars, screenVars, collectVars>>

\* array.slice(-n) for n > 0: the last n elements, all of them if fewer
SliceLast(array, n) ==
    IF Len(array) <= n THEN array
    ELSE SubSeq(array, Len(array) - n + 1, Len(array))

\* the stationary rule always at its cap
StationaryConfidenceAtCap(accelStd) == R(95)

\* the confidence of the stationary rule: Math.min(95, 80 + (1 - accelStd * 10) * 15)
StationaryConfidence(accelStd) ==
    RMin(R(95), RAdd(R(80), RMul(RSub(R(1), RMul(accelStd, R(10))), R(15))))

\* the first rule with a tenth of its tolerance around 1.0 g
stationaryRuleNarrow(accelStd, speedMean, deviationFromGravity) ==
    /\ RLt(accelStd, Rat(5, 100))
    /\ RLt(speedMean, Rat(3, 10))
    /\ RLt(deviationFromGravity, Rat(1, 100))

\* the condition of the first rule of classifyActivity
stationaryRule(accelStd, speedMean, deviationFromGravity) ==
    /\ RLt(accelStd, Rat(5, 100))
    /\ RLt(speedMean, Rat(3, 10))
    /\ RLt(deviationFromGravity, Rat(1, 10))

\* StatusScreen.classifyActivity with the statistics of the sample windows
\* given: screen is the state it reads and writes (the label and confidence
\* states, inactiveTimeRef, activityHistoryRef), nAccel is recentAccel.length,
\* stats the values computed from the windows, t the clock
classifyActivityAlways(screen, nAccel, stats, t) ==
    LET accelStd  == stats.accelStd
        speedMean == stats.speedMean
        deviationFromGravity == stats.deviationFromGravity
        inactive  == screen.inactiveTime
        rule ==
            IF stationaryRule(accelStd, speedMean, deviationFromGravity)
            THEN [activity   |-> "stationary",
                  confidence |-> StationaryConfidence(accelStd),
                  inactiveTime |-> inactive + 1]
            ELSE IF \/ /\ RGe(accelStd, Rat(5, 100)) /\ RLt(accelStd, Rat(4, 10))
                       /\ RGe(speedMean, Rat(3, 10)) /\ RLt(speedMean, Rat(5, 2))
                    \/ /\ RGe(deviationFromGravity, Rat(1, 10))
                       /\ RGe(speedMean, Rat(3, 10)) /\ RLt(speedMean, Rat(5, 2))
            THEN [activity   |-> "walking",
                  confidence |-> RMin(R(92), RAdd(R(65), RMul(accelStd, R(60)))),
                  inactiveTime |-> 0]
            ELSE IF \/ RGe(accelStd, Rat(4, 10)) /\ RGe(speedMean, R(2))
                    \/ RGe(speedMean, Rat(5, 2)) /\ RLt(speedMean, R(7))
            THEN [activity   |-> "running",
                  confidence |-> RMin(R(95), RAdd(R(75),
                                   RMul(RMin(accelStd, R(1)), R(20)))),
                  inactiveTime |-> 0]
            ELSE IF /\ RGe(speedMean, Rat(7, 2)) /\ RLt(speedMean, R(12))
                    /\ RLt(accelStd, Rat(4, 10))
            THEN [activity   |-> "cycling",
                  confidence |-> RMin(R(88), RAdd(R(65),
                                   RMul(RDiv(speedMean, R(12)), R(23)))),
                  inactiveTime |-> 0]
            ELSE IF /\ RGe(accelStd, Rat(5, 100)) /\ RLt(accelStd, Rat(5, 10))
                    /\ RLt(speedMean, Rat(3, 10)) /\ RGt(stats.gpsAccuracy, R(20))
            THEN [activity   |-> "walking",
                  confidence |-> RMin(R(75), RAdd(R(50), RMul(accelStd, R(50)))),
                  inactiveTime |-> 0]
            ELSE IF /\ RLt(accelStd, Rat(3, 100)) /\ RLt(speedMean, Rat(2, 10))
                    /\ inactive > 30
            THEN [activity   |-> "sleeping",
                  confidence |-> RMin(R(90), RAdd(R(60),
                                   RMul(RMin(Rat(inactive, 120), R(1)), R(30)))),
                  inactiveTime |-> inactive]
            ELSE IF RLt(speedMean, Rat(3, 10))
            THEN [activity |-> "stationary", confidence |-> R(55),
                  inactiveTime |-> inactive + 1]
            ELSE [activity |-> "unknown", confidence |-> R(35), inactiveTime |-> 0]
        history == screen.activityHistoryRef
        added ==
            IF Len(history) = 0 \/ history[Len(history)].activity # rule.activity
            THEN Append(SliceLast(history, 20),
                        [activity |-> rule.activity, confidence |-> rule.confidence,
                         timestamp |-> t])
            ELSE history
    IN  [currentActivity    |-> rule.activity,
         activityConfidence |-> rule.confidence,
         inactiveTime       |-> rule.inactiveTime,
         activityHistoryRef |-> added]

\* StatusScreen.classifyActivity: nothing is done on fewer than 10 samples
classifyActivity(screen, nAccel, stats, t) ==
    IF nAccel < 10 THEN screen
    ELSE classifyActivityAlways(screen, nAccel, stats, t)

\* StatusScreen.detectConversation: the new conversationState, given
\* recentAudio.length and the statistics of the window
detectConversation(state, nAudio, stats) ==
    IF nAudio < 20 THEN state
    ELSE IF RLt(stats.audioMean, R(12)) THEN "silent"
    ELSE IF RLt(stats.audioMean, R(30))
        THEN (IF RLt(stats.peakRate, Rat(1, 4)) THEN "silent" ELSE "talking")
    ELSE IF RLt(stats.audioMean, R(45)) THEN "talking"
    ELSE "conversation"

\* StatusScreen.detectLocation: the new locationState, given
\* recentSpeed.length and the statistics of the window
detectLocation(state, nSpeed, stats) ==
    IF nSpeed < 3 THEN state
    ELSE IF RGe(stats.avgSpeed, Rat(1, 2)) \/ RGe(stats.maxSpeed, Rat(8, 10))
        THEN "moving"
    ELSE IF RLe(stats.gpsAccuracy, R(30)) THEN "outdoor"
    ELSE "indoor"

\* the statistics of the acceleration and speed windows drawn, one or more
\* for each rule of classifyActivity
ActivityStats ==
    { [accelStd |-> Rat(2, 100), speedMean |-> Rat(1, 10),
       deviationFromGravity |-> Rat(5, 100), gpsAccuracy |-> R(5)],
      [accelStd |-> R(0), speedMean |-> R(0),
       deviationFromGravity |-> R(0), gpsAccuracy |-> R(5)],
      [accelStd |-> Rat(2, 10), speedMean |-> R(1),
       deviationFromGravity |-> R(0), gpsAccuracy |-> R(5)],
      [accelStd |-> Rat(1, 2), speedMean |-> R(3),
       deviationFromGravity |-> R(0), gpsAccuracy |-> R(5)],
      [accelStd |-> Rat(1, 10), speedMean |-> R(8),
       deviationFromGravity |-> R(0), gpsAccuracy |-> R(5)],
      [accelStd |-> Rat(1, 10), speedMean |-> R(0),
       deviationFromGravity |-> R(0), gpsAccuracy |-> R(25)],
      [accelStd |-> Rat(2, 100), speedMean |-> Rat(1, 10),
       deviationFromGravity |-> Rat(2, 10), gpsAccuracy |-> R(5)],
      [accelStd |-> Rat(1, 2), speedMean |-> Rat(1, 2),
       deviationFromGravity |-> R(0), gpsAccuracy |-> R(5)] }

\* the states of the screen a tick can find: as mounted, after stationary
\* ticks, after a walking tick
ScreenStates ==
    { [currentActivity |-> "unknown", activityConfidence |-> R(0),
       inactiveTime |-> 0, activityHistoryRef |-> <<>>] }
    \cup
    { [currentActivity |-> "stationary", activityConfidence |-> R(92),
       inactiveTime |-> n,
       activityHistoryRef |->
           << [activity |-> "stationary", confidence |-> R(92), timestamp |-> 0] >>] :
      n \in {1, 30, 31, 150} }
    \cup
    { [currentActivity |-> "walking", activityConfidence |-> R(77),
       inactiveTime |-> 0,
       activityHistoryRef |->
           << [activity |-> "stationary", confidence |-> R(92), timestamp |-> 0],
              [activity |-> "walking", confidence |-> R(77), timestamp |-> 1] >>] }

\* recentAccel.length: the window is the last 30 samples of the buffer
AccelWindowLengths == {0, 9, 10, 30}

ClassifyCalls ==
    [op : {"classifyActivity"}, screen : ScreenStates, nAccel : AccelWindowLengths,
     stats : ActivityStats, at : {2}]

AudioStats ==
    { [audioMean |-> R(5), peakRate |-> R(0)],
      [audioMean |-> R(20), peakRate |-> Rat(1, 10)],
      [audioMean |-> R(20), peakRate |-> Rat(3, 10)],
      [audioMean |-> R(35), peakRate |-> R(0)],
      [audioMean |-> R(50), peakRate |-> R(0)] }

ConversationCalls ==
    [op : {"detectConversation"}, state : {"silent", "talking", "conversation"},
     nAudio : {0, 19, 20, 50}, stats : AudioStats]

SpeedStats ==
    { [avgSpeed |-> R(1), maxSpeed |-> R(2), gpsAccuracy |-> R(5)],
      [avgSpeed |-> Rat(1, 10), maxSpeed |-> R(1), gpsAccuracy |-> R(5)],
      [avgSpeed |-> R(0), maxSpeed |-> R(0), gpsAccuracy |-> R(5)],
      [avgSpeed |-> R(0), maxSpeed |-> R(0), gpsAccuracy |-> R(40)] }

LocationCalls ==
    [op : {"detectLocation"},
     state : {"stationary", "moving", "outdoor", "indoor"},
     nSpeed : {0, 2, 3, 10}, stats : SpeedStats]

ClassifyActivity ==
    /\ Calling("classifyActivity")
    /\ result' = <<classifyActivity(call[1].screen, call[1].nAccel,
                                    call[1].stats, call[1].at)>>
    /\ UNCHANGED <<auxVars, hookVars, call, now, zone, engineVars, screenVars, collectVars>>

DetectConversation ==
    /\ Calling("detectConversation")
    /\ result' = <<detectConversation(call[1].state, call[1].nAudio, call[1].stats)>>
    /\ UNCHANGED <<auxVars, hookVars, call, now, zone, engineVars, screenVars, collectVars>>

DetectLocation ==
    /\ Calling("detectLocation")
    /\ result' = <<detectLocation(call[1].state, call[1].nSpeed, call[1].stats)>>
    /\ UNCHANGED <<auxVars, hookVars, call, now, zone, engineVars, screenVars, collectVars>>

\* MAX_HISTORY_POINTS of the audio provider
AUDIO_MAX_HISTORY_POINTS == 100

\* MAX_HISTORY_POINTS of the sensors provider
SENSORS_MAX_HISTORY_POINTS == 50

\* a push that drops nothing
pushSampleKeepingAll(buffer, keep, sample) == Append(buffer, sample)

\* [...buffer.slice(-keep), sample]
pushSample(buffer, keep, sample) == Append(SliceLast(buffer, keep), sample)

\* the rolling buffers and the argument of slice in the push of each
SampleBuffers ==
    {"accelHistoryRef", "speedHistoryRef", "audioHistory",
     "accelHistoryX", "speedHistory", "brightnessHistory"}

BufferKeep(buffer) ==
    CASE buffer = "accelHistoryRef" -> 100
      [] buffer = "speedHistoryRef" -> 10
      [] buffer = "audioHistory"    -> AUDIO_MAX_HISTORY_POINTS - 1
      [] OTHER                      -> SENSORS_MAX_HISTORY_POINTS - 1

\* pushes made onto a buffer after the one that fills it
MaxExtraPushes == 2

\* the first sample arriving at an empty buffer; samples are numbered in the
\* order they arrive
PushCalls ==
    { [op |-> "pushSample", buffer |-> b, contents |-> <<>>, sample |-> 1] :
      b \in SampleBuffers }

PushSample ==
    /\ Calling("pushSample")
    /\ result' = <<pushSample(call[1].contents, BufferKeep(call[1].buffer),
                              call[1].sample)>>
    /\ UNCHANGED <<auxVars, hookVars, call, now, zone, engineVars, screenVars, collectVars>>

\* the next sample arrives at the buffer the last push left
NextSample ==
    /\ Returned("pushSample")
    /\ call[1].sample <= BufferKeep(call[1].buffer) + MaxExtraPushes
    /\ call' = <<[call[1] EXCEPT !.contents = result[1], !.sample = @ + 1]>>
    /\ result' = <<>>
    /\ UNCHANGED <<auxVars, hookVars, now, zone, engineVars, screenVars, collectVars>>

\* recentAudio.reduce((a, b) => a + b, 0), from index i on
RECURSIVE sumFrom(_, _)
sumFrom(levels, i) == IF i > Len(levels) THEN 0 ELSE levels[i] + sumFrom(levels, i + 1)

\* a level at the threshold counted as a peak
peaksAtThreshold(recentAudio, threshold) ==
    Len(SelectSeq(recentAudio, LAMBDA level : RGe(R(level), threshold)))

\* recentAudio.filter(level => level > threshold).length
peaks(recentAudio, threshold) ==
    Len(SelectSeq(recentAudio, LAMBDA level : RGt(R(level), threshold)))

\* recentAudio.reduce((sum, val) => sum + Math.pow(val - audioMean, 2), 0),
\* from index i on, in units of 1 / n^2: audioMean is total / n, so
\* (val - audioMean)^2 is (n * val - total)^2 / n^2
RECURSIVE sumSquaresFrom(_, _, _)
sumSquaresFrom(levels, total, i) ==
    IF i > Len(levels) THEN 0
    ELSE (Len(levels) * levels[i] - total) * (Len(levels) * levels[i] - total)
         + sumSquaresFrom(levels, total, i + 1)

\* the statistics detectConversation takes of its window; audioStd > 12 is
\* decided on the variance, audioStd being its square root
audioStatistics(recentAudio) ==
    LET n         == Len(recentAudio)
        total     == sumFrom(recentAudio, 1)
        audioMean == Rat(total, n)
    IN  [audioMean     |-> audioMean,
         peakRate      |-> Rat(peaks(recentAudio, RAdd(audioMean, R(8))), n),
         audioVariance |-> Rat(sumSquaresFrom(recentAudio, total, 1), n * n * n)]

\* StatusScreen.detectConversation on the shared audio history: the new
\* conversationState
detectConversationOn(state, sharedAudioHistory) ==
    LET recentAudio == SliceLast(sharedAudioHistory, 50)
    IN  IF Len(recentAudio) < 20 THEN state
        ELSE LET st == audioStatistics(recentAudio)
             IN  IF RLt(st.audioMean, R(12)) THEN "silent"
                 ELSE IF RGe(st.audioMean, R(12)) /\ RLt(st.audioMean, R(30))
                     THEN (IF RLt(st.peakRate, Rat(1, 4)) THEN "silent" ELSE "talking")
                 ELSE IF RGe(st.audioMean, R(30)) /\ RLt(st.audioMean, R(45))
                     THEN "talking"
                 ELSE IF \/ RGe(st.audioMean, R(45))
                         \/ /\ RGe(st.peakRate, Rat(35, 100))
                            /\ RGt(st.audioVariance, R(144))
                     THEN "conversation"
                 ELSE "talking"

\* the audio windows drawn: n levels, the first nHigh of them at low + delta
\* and the others at low
AudioWindows ==
    { [i \in 1..n |-> IF i <= nHigh THEN low + delta ELSE low] :
        n \in {19, 20, 50}, nHigh \in {0, 4, 5, 10},
        low \in {5, 12, 20, 30, 45}, delta \in {16, 20} }

WindowCalls ==
    [op : {"detectConversationOn"}, state : {"silent", "talking", "conversation"},
     sharedAudioHistory : AudioWindows]

DetectConversationOn ==
    /\ Calling("detectConversationOn")
    /\ result' = <<detectConversationOn(call[1].state, call[1].sharedAudioHistory)>>
    /\ UNCHANGED <<auxVars, hookVars, call, now, zone, engineVars, screenVars, collectVars>>

\* the hook's updateWellbeingScores at instant t, up to the scores of the
\* day: the aggregator's metrics of today, then calculateDailyScores
todayUpdate(activities, conversations, t) ==
    LET metrics == calculateTodayMetrics(activities, conversations, t)
    IN  [metrics |-> metrics, todayScores |-> calculateDailyScores(metrics, t)]

\* the instants of the drawn updates: day 1 at 00:30, 12:00 and 23:30 (local)
TodayWallTimes == {1470, 2160, 2850}

\* the drawn histories: a walk of ten minutes on day 1 from 00:05, from 11:00
\* or from 23:00 (local)
TodayLists ==
    { << [timestamp |-> WallToUTC(w), activity |-> "walking", confidence |-> 80],
         [timestamp |-> WallToUTC(w + 10), activity |-> "stationary",
          confidence |-> 95] >> : w \in {1445, 2100, 2820} }
    \cup {<<>>}

TodayCalls ==
    [op : {"todayUpdate"}, activities : TodayLists, conversations : {<<>>},
     at : {WallToUTC(w) : w \in TodayWallTimes}]

TodayUpdate ==
    /\ Calling("todayUpdate")
    /\ result' = <<todayUpdate(call[1].activities, call[1].conversations,
                               call[1].at)>>
    /\ UNCHANGED <<auxVars, hookVars, call, now, zone, engineVars, screenVars, collectVars>>

InitCalc ==
    /\ Constructed
    /\ Mounted
    /\ session = FALSE
    /\ storage = [scores |-> Missing, daily |-> Missing]
    /\ remote = [score |-> <<>>, daily |-> {}]
    /\ result = <<>>
    /\ \/ \E c \in MetricsCalls : call = <<c>>
       \/ \E c \in CurveCalls : call = <<c>>
       \/ \E c \in ClassifyCalls : call = <<c>>
       \/ \E c \in ConversationCalls : call = <<c>>
       \/ \E c \in LocationCalls : call = <<c>>
       \/ \E c \in PushCalls : call = <<c>>
       \/ \E c \in SleepCalls : call = <<c>>
       \/ \E c \in WindowCalls : call = <<c>>
       \/ \E c \in TodayCalls : call = <<c>>

NextCalc ==
    \/ CalculateMetricsForDate
    \/ CalculateSleepHours
    \/ DetectConversationOn
    \/ TodayUpdate
    \/ ApplyCurve
    \/ ClassifyActivity
    \/ DetectConversation
    \/ DetectLocation
    \/ PushSample
    \/ NextSample

SpecCalc == InitCalc /\ [][NextCalc]_vars

-----------------------------------------------------------------------------
(* The aggregator being fed and asked for the metrics of a date *)

MaxMetricsClock == 1800

MaxConversations == 1

\* the clock readings (minutes) between calls of the aggregator
MetricsSteps == {600, 840}

\* the events a caller adds
AddedActivities ==
    { [activity |-> "sleeping", confidence |-> 90],
      [activity |-> "walking",  confidence |-> 80] }

AddedConversations ==
    { [state |-> "talking", duration |-> 600] }

\* the dates asked about: day 0 and day 1 at noon (local)
MetricsDates == {WallToUTC(720), WallToUTC(2160)}

\* a call of calculateMetricsForDate that has returned is marked once an
\* event is added after it
AddSeen ==
    IF call = <<>> THEN <<>> ELSE <<[call[1] EXCEPT !.addedSince = TRUE]>>

\* aggregator.addActivity(event) at the current instant
AddActivity ==
    /\ Len(activityHistory) < MaxEvents
    /\ \E e \in AddedActivities :
          activityHistory' =
              addActivity(activityHistory,
                          [activity |-> e.activity, confidence |-> e.confidence,
                           timestamp |-> now], now)
    /\ call' = AddSeen
    /\ UNCHANGED <<auxVars, hookVars, result, now, zone, engineVars, screenVars, lastActivityRef,
                   lastConversationRef, conversationHistory, lastRead>>

\* aggregator.addConversation(event) at the current instant
AddConversation ==
    /\ Len(conversationHistory) < MaxConversations
    /\ \E e \in AddedConversations :
          conversationHistory' =
              addConversation(conversationHistory,
                              [state |-> e.state, timestamp |-> now,
                               duration |-> e.duration], now)
    /\ call' = AddSeen
    /\ UNCHANGED <<auxVars, hookVars, result, now, zone, engineVars, screenVars, lastActivityRef,
                   lastConversationRef, activityHistory, lastRead>>

\* aggregator.calculateMetricsForDate(date): `call` keeps the date asked
\* about and whether the call before it asked the same with no add between
MetricsForDate(date) ==
    /\ call' = <<[op |-> "calculateMetricsForDate", date |-> date,
                  addedSince |-> FALSE,
                  repeated |-> /\ call # <<>>
                               /\ call[1].date = date
                               /\ ~call[1].addedSince]>>
    /\ result' = <<calculateMetricsForDate(activityHistory, conversationHistory, date)>>
    /\ UNCHANGED <<auxVars, hookVars, now, zone, engineVars, screenVars, collectVars>>

AskMetrics == \E date \in MetricsDates : MetricsForDate(date)

\* time passes between calls
Pass ==
    /\ \E d \in MetricsSteps :
          /\ now + d <= MaxMetricsClock
          /\ now' = now + d
    /\ UNCHANGED <<auxVars, hookVars, calcVars, zone, engineVars, screenVars, collectVars>>

NextMetrics ==
    \/ AddActivity
    \/ AddConversation
    \/ AskMetrics
    \/ Pass

SpecMetrics == InitCollect /\ [][NextMetrics]_vars

-----------------------------------------------------------------------------
(* useWellbeingDataCollection: the update effect and its five-minute timer *)

MaxTimerClock == 15

\* the histories the aggregator holds while the hook is mounted: nothing, or
\* ten minutes of talking
TimerConversations ==
    { <<>>, << [state |-> "talking", timestamp |-> 0, duration |-> 600] >> }

\* the provider's mount load commits: currentScores, dailyScores and the flag
\* are set, so the next render makes a new updateScores (its useCallback
\* dependencies changed) and the hook's update effect, which depends on it,
\* is due again
TimerLoad ==
    /\ LoadCommit
    /\ effectPending' = TRUE
    /\ UNCHANGED sinceTick

\* updateWellbeingScores as the update effect and the timer call it: the
\* metrics of today from the aggregator.  A committed update sets the
\* provider's state, so the update effect is due again after it.
hookUpdate(env) ==
    /\ updateWellbeingScores(
           calculateTodayMetrics(activityHistory, conversationHistory, now), env)
    /\ effectPending' = (nUpdates' # nUpdates)

\* the update effect runs (at mount, and whenever updateScores is a new
\* function): the old interval is cleared, a new one is set and
\* updateWellbeingScores is called at once
UpdateEffect ==
    /\ ~loadPending
    /\ effectPending
    /\ nUpdates < MaxUpdates
    /\ \E env \in Environments : hookUpdate(env)
    /\ sinceTick' = IF nUpdates' # nUpdates THEN sinceTick + 1 ELSE sinceTick
    /\ UNCHANGED <<auxVars, calcVars, now, zone, isLoading, loadPending, session>>
    /\ UNCHANGED <<screenVars, collectVars>>

\* the interval set by the last run of the update effect fires, five
\* minutes after that run
TimerFires ==
    /\ ~loadPending
    /\ ~effectPending
    /\ nUpdates < MaxUpdates
    /\ now + 5 <= MaxTimerClock
    /\ now' = now + 5
    /\ \E env \in Environments :
          /\ updateWellbeingScores(
                 calculateTodayMetrics(activityHistory, conversationHistory, now'), env)
          /\ effectPending' = (nUpdates' # nUpdates)
    /\ sinceTick' = IF nUpdates' # nUpdates THEN 1 ELSE 0
    /\ UNCHANGED <<auxVars, calcVars, zone, isLoading, loadPending, session>>
    /\ UNCHANGED <<screenVars, collectVars>>

InitTimer ==
    /\ Constructed
    /\ currentActivity = "unknown"
    /\ activityConfidence = 0
    /\ conversationState = "silent"
    /\ lastConversationStateRef = "silent"
    /\ conversationDurationRef = 0
    /\ lastConversationChangeRef = now
    /\ lastActivityRef = <<>>
    /\ lastConversationRef = <<>>
    /\ activityHistory = <<>>
    /\ conversationHistory \in TimerConversations
    /\ lastRead = [time |-> now, activity |-> <<>>, conversation |-> <<>>]
    /\ effectPending = TRUE
    /\ sinceTick = 0
    /\ talkedSeconds = 0
    /\ possibleSleeping = FALSE
    /\ sharedAudioLevel = 0
    /\ intervalClosure = [possibleSleeping |-> FALSE, sharedAudioLevel |-> 0]
    /\ inactiveTimeRef = 0
    /\ accelHistoryRef = <<>>
    /\ shouldSleepAtTick = FALSE
    /\ MonitoringMounted
    /\ SensorsMounted
    /\ taskRegistered = FALSE
    /\ NoCall
    /\ storage \in InitialStorage
    /\ remote \in InitialRemote

NextTimer ==
    \/ TimerLoad
    \/ UpdateEffect
    \/ TimerFires

SpecTimer == InitTimer /\ [][NextTimer]_vars

-----------------------------------------------------------------------------
(* Properties *)

\* a snapshot whose three metrics are all zero
ZeroSnapshots == {m \in MetricsInputs : IsZeroMetrics(m)}

\* C1: on every path that can trigger a score update, the collection timer
\* and the exposed updateScores(metrics) alike, a snapshot whose three metrics
\* are all zero leaves currentScores, dailyScores, the local cache and the
\* remote tables exactly as they were.
C1_ZeroSnapshotDiscarded ==
    [][ (\E m \in ZeroSnapshots, env \in Environments :
             updateScores(m, env) \/ updateWellbeingScores(m, env))
        => UNCHANGED <<currentScores, dailyScores, storage, remote>> ]_vars

\* the dates of a list of daily scores
Dates(daily) == {daily[i].date : i \in 1..Len(daily)}

\* the least of a non-empty set of integers
Oldest(S) == CHOOSE d \in S : \A e \in S : d <= e

\* C2: dailyScores never holds more than 30 entries, and an update for a new
\* date on a full list keeps the 30 most recent dates: the new date comes in
\* and the oldest date is the one discarded.
C2_CapKeepsMostRecent ==
    [][ ( /\ \E m \in MetricsInputs, env \in Environments : updateScores(m, env)
          /\ ~isUsingSampleData
          /\ Len(dailyScores) = DailyCap
          /\ ToISODate(now) \notin Dates(dailyScores) )
        => /\ Len(dailyScores') <= DailyCap
           /\ Dates(dailyScores') =
                 (Dates(dailyScores) \cup {ToISODate(now)})
                     \ {Oldest(Dates(dailyScores))} ]_vars

\* C3: in every reachable state dailyScores has at most one entry per date
\* and is ordered by date, newest first.
C3_DailyUniqueSortedDesc ==
    \A i \in 1..Len(dailyScores) : \A j \in 1..Len(dailyScores) :
        i < j => dailyScores[i].date > dailyScores[j].date

\* C4: in every reachable state with currentScores present, the synthetic
\* baseline included, overall is exactly the mean of the three dimensions.
C4_OverallIsMean ==
    currentScores # <<>> =>
        currentScores[1].overall = calculateOverallScore(currentScores[1])

\* a score lies in [0, 100]
InRange(x) == RGe(x, R(0)) /\ RLe(x, R(100))

\* the three dimension scores of a record lie in [0, 100]
ScoresInRange(s) ==
    /\ InRange(s.sleep)
    /\ InRange(s.physicalActivity)
    /\ InRange(s.socialInteraction)

\* C5: every dimension score and the overall score, of currentScores and of
\* every entry of dailyScores, lies in [0, 100] in every reachable state.
C5_ScoresBounded ==
    /\ \A i \in 1..Len(currentScores) :
          ScoresInRange(currentScores[i]) /\ InRange(currentScores[i].overall)
    /\ \A i \in 1..Len(dailyScores) : ScoresInRange(dailyScores[i])

\* C5 witness: two updates have been smoothed into scores that were real
\* before, one of them from a day above every target (9 h sleep, 45 active
\* minutes, 90 social minutes), and the result is strictly inside the range
C5_Witness ==
    /\ nUpdates = 2
    /\ ~isUsingSampleData
    /\ currentScores # <<>>
    /\ RGt(currentScores[1].overall, R(0))
    /\ RLt(currentScores[1].overall, R(100))
    /\ \E i \in 1..Len(dailyScores) :
          dailyScores[i].sleep = R(100) /\ dailyScores[i].date = ToISODate(now)

\* C6: the aggregator is given a new ActivityEvent only when the classified
\* label differs from the label of the last ActivityEvent it was given,
\* across ticks and re-renders.
C6_ActivityOnlyOnLabelChange ==
    [][ (lastActivityRef' # lastActivityRef /\ lastActivityRef # <<>>)
        => lastActivityRef'[1].activity # lastActivityRef[1].activity ]_vars

\* C7: whatever a read of the aggregator returns, no event in it has a
\* timestamp more than 7 days before the moment of the read.
C7_ReadsSeeNoExpiredEvent ==
    /\ \A i \in 1..Len(lastRead.activity) :
          lastRead.activity[i].timestamp >= lastRead.time - 1440 * MAX_HISTORY_DAYS
    /\ \A i \in 1..Len(lastRead.conversation) :
          lastRead.conversation[i].timestamp >= lastRead.time - 1440 * MAX_HISTORY_DAYS

\* the exposed scores are the synthetic baseline (as generated at the time
\* its lastUpdated records)
IsSampleBaseline ==
    /\ currentScores # <<>>
    /\ LET sample == generateSampleWellbeingData(currentScores[1].lastUpdated)
       IN  /\ currentScores[1] = sample.currentScore
           /\ dailyScores = sample.dailyScores

\* C8: in every reachable state isUsingSampleData is true exactly when the
\* exposed currentScores and dailyScores are the synthetic baseline.
C8_SampleFlagExact ==
    isUsingSampleData <=> IsSampleBaseline

\* the cache item holds nothing usable: absent, or text that does not parse
Unusable(item) == ~IsString(item) \/ JSONparseThrows(item)

\* C9: when loadScores completes on a cache with no usable data, the key
\* missing or its JSON malformed, the state is the synthetic baseline:
\* currentScores is not null, dailyScores is not empty, isUsingSampleData is
\* true and isLoading is false.
C9_LoadFallsBackToBaseline ==
    [][ (LoadScores /\ Unusable(storage.scores) /\ Unusable(storage.daily))
        => /\ currentScores' # <<>>
           /\ dailyScores' # <<>>
           /\ isUsingSampleData'
           /\ ~isLoading' ]_vars

\* the environment makes a write of updateScores fail
PersistenceFailed(env) == env.cacheFail # "none" \/ env.dbFail # "none"

HasRealScore ==
    /\ currentScores # <<>>
    /\ currentScores[1] #
         generateSampleWellbeingData(currentScores[1].lastUpdated).currentScore

\* C11: when a real previous current score exists, a committed updateScores
\* sets every dimension to 0.3 * today's score + 0.7 * the previous current
\* score, and overall to the mean of the three smoothed dimensions.
C11_SmoothedAgainstRealPrevious ==
    [][ (nUpdates' # nUpdates /\ HasRealScore) =>
          \A m \in MetricsInputs, env \in Environments :
             updateScores(m, env)
             => LET today == calculateDailyScores(m, now)
                    prev  == currentScores[1]
                    new   == currentScores'[1]
                IN  /\ new.sleep = RAdd(RMul(Rat(3, 10), today.sleep),
                                        RMul(Rat(7, 10), prev.sleep))
                    /\ new.physicalActivity =
                          RAdd(RMul(Rat(3, 10), today.physicalActivity),
                               RMul(Rat(7, 10), prev.physicalActivity))
                    /\ new.socialInteraction =
                          RAdd(RMul(Rat(3, 10), today.socialInteraction),
                               RMul(Rat(7, 10), prev.socialInteraction))
                    /\ new.overall = calculateOverallScore(new) ]_vars

\* C12: when currentScores is null or only the synthetic baseline is shown,
\* updateScores sets each current dimension exactly to today's daily score,
\* and no synthetic value survives: from the baseline dailyScores becomes
\* today's entry alone, and otherwise every entry is today's or was there.
C12_FirstComputationUnsmoothed ==
    [][ (nUpdates' # nUpdates /\ (currentScores = <<>> \/ IsSampleBaseline)) =>
          \A m \in MetricsInputs, env \in Environments :
             updateScores(m, env)
             => LET today == calculateDailyScores(m, now)
                    new   == currentScores'[1]
                IN  /\ new.sleep = today.sleep
                    /\ new.physicalActivity = today.physicalActivity
                    /\ new.socialInteraction = today.socialInteraction
                    /\ IsSampleBaseline => dailyScores' = <<today>>
                    /\ \A i \in 1..Len(dailyScores') :
                          \/ dailyScores'[i] = today
                          \/ /\ ~IsSampleBaseline
                             /\ \E j \in 1..Len(dailyScores) :
                                   dailyScores[j] = dailyScores'[i] ]_vars

\* C12 witness: the first update after the baseline was shown has replaced
\* it: one daily entry, today's, with scores strictly inside the range that
\* are also the current scores
C12_Witness ==
    /\ nUpdates = 1
    /\ ~isUsingSampleData
    /\ storage.scores = Missing
    /\ Len(dailyScores) = 1
    /\ currentScores # <<>>
    /\ currentScores[1].sleep = dailyScores[1].sleep
    /\ RGt(currentScores[1].sleep, R(0))
    /\ RLt(currentScores[1].sleep, R(100))

\* the example of C13: a sleeping event (confidence 90) at 23:00 and a walking
\* event (confidence 80) at the 06:00 that follows it, seven hours later
SleepExample ==
    << [timestamp |-> WallToUTC(2820), activity |-> "sleeping", confidence |-> 90],
       [timestamp |-> WallToUTC(3240), activity |-> "walking", confidence |-> 80] >>

\* C13: for the history holding (23:00, sleeping, 90) and (06:00, walking, 80),
\* the sleep hours computed for the day are 7, the full gap between the events
C13_SleepExampleIsSevenHours ==
    (Returned("calculateMetricsForDate") /\ call[1].activities = SleepExample)
        => result[1].sleepHours = R(7)

\* the sum of a sequence of rationals, from index i on
RECURSIVE RSum(_, _)
RSum(seq, i) == IF i > Len(seq) THEN R(0) ELSE RAdd(seq[i], RSum(seq, i + 1))

\* the events of the history that carry the local calendar date asked about
EventsOfDay(activities, date) ==
    SelectSeq(activities, LAMBDA a : LocalDay(a.timestamp) = LocalDay(date))

\* what the i-th event of a day is to contribute to the active minutes
ActiveContribution(day, i) ==
    LET gap == IF i < Len(day) THEN day[i + 1].timestamp - day[i].timestamp ELSE 0
    IN  IF i = Len(day) \/ day[i].confidence < 60 THEN R(0)
        ELSE CASE day[i].activity = "walking" -> R(gap)
               [] day[i].activity = "running" -> RMul(R(gap), Rat(3, 2))
               [] day[i].activity = "cycling" -> RMul(R(gap), Rat(13, 10))
               [] OTHER -> R(0)

\* C14: each walking / running / cycling event with confidence >= 60 that is
\* followed by another event of the day contributes the minutes to that next
\* event times 1.0 / 1.5 / 1.3 and every other event contributes 0; a
\* 10-minute running event yields 15 minutes, a 10-minute walking event 10
C14_ActiveMinutesWeighted ==
    Returned("calculateMetricsForDate") =>
        LET day    == EventsOfDay(call[1].activities, call[1].date)
            active == result[1].physicalActivityMinutes
        IN  /\ active = RSum([i \in 1..Len(day) |-> ActiveContribution(day, i)], 1)
            /\ ( /\ Len(day) = 2
                 /\ day[1].confidence >= 60
                 /\ day[2].timestamp - day[1].timestamp = 10 )
               => /\ day[1].activity = "running" => active = R(15)
                  /\ day[1].activity = "walking" => active = R(10)

C14_Witness ==
    /\ Returned("calculateMetricsForDate")
    /\ LET day == EventsOfDay(call[1].activities, call[1].date)
       IN  /\ Len(day) = 3
           /\ day[1].activity = "running" /\ day[1].confidence = 60
           /\ day[2].activity = "walking" /\ day[2].confidence = 59
           /\ day[3].activity = "cycling"
           /\ day[2].timestamp - day[1].timestamp = 10
           /\ result[1].physicalActivityMinutes = R(15)

\* the input from which a curve returns 100
CurveTarget(curve) ==
    CASE curve = "sleep" -> R(8) [] curve = "activity" -> R(30) [] curve = "social" -> R(60)

\* the listed breakpoints <<input, score>> of a curve
CurveBreakpoints(curve) ==
    CASE curve = "sleep" ->
            { <<Rat(15, 2), 90>>, <<R(7), 80>>, <<R(6), 60>>, <<R(5), 30>>, <<R(4), 10>> }
      [] curve = "activity" ->
            { <<R(20), 80>>, <<R(15), 65>>, <<R(10), 50>>, <<R(5), 25>> }
      [] curve = "social" ->
            { <<R(45), 85>>, <<R(30), 70>>, <<R(20), 55>>, <<R(10), 40>>, <<R(5), 20>> }

StationaryExample(stats) ==
    /\ stats.accelStd = Rat(2, 100)
    /\ stats.speedMean = Rat(1, 10)
    /\ stats.deviationFromGravity = Rat(5, 100)

\* C16 as stated: with at least 10 samples and accelStd = 0.02, speedMean =
\* 0.1, deviationFromGravity = 0.05 the activity is classified stationary
\* with confidence 95, the capped maximum of the stationary rule
C16_StationaryExampleAtCap ==
    ( /\ Returned("classifyActivity")
      /\ call[1].nAccel >= 10
      /\ StationaryExample(call[1].stats) )
    => /\ result[1].currentActivity = "stationary"
       /\ result[1].activityConfidence = R(95)

\* C16, amended: with at least 10 samples and those statistics the activity
\* is classified stationary with confidence 80 + (1 - 10 * 0.02) * 15 = 92,
\* below the cap; the rule's confidence is 95 exactly when accelStd is 0
C16_StationaryExampleConfidence ==
    ( /\ Returned("classifyActivity")
      /\ call[1].nAccel >= 10 )
    => /\ StationaryExample(call[1].stats)
          => /\ result[1].currentActivity = "stationary"
             /\ result[1].activityConfidence = R(92)
       /\ ( /\ RLt(call[1].stats.accelStd, Rat(5, 100))
            /\ RLt(call[1].stats.speedMean, Rat(3, 10))
            /\ RLt(call[1].stats.deviationFromGravity, Rat(1, 10)) )
          => /\ result[1].currentActivity = "stationary"
             /\ RLe(result[1].activityConfidence, R(95))
             /\ result[1].activityConfidence = R(95)
                   <=> call[1].stats.accelStd = R(0)

C16_Witness ==
    /\ Returned("classifyActivity")
    /\ call[1].nAccel = 10
    /\ StationaryExample(call[1].stats)
    /\ call[1].screen.currentActivity = "walking"
    /\ result[1].currentActivity = "stationary"
    /\ result[1].activityConfidence = R(92)
    /\ Len(result[1].activityHistoryRef) = 3

BufferCapacity(buffer) ==
    CASE buffer = "accelHistoryRef" -> 101
      [] buffer = "speedHistoryRef" -> 11
      [] buffer = "audioHistory"    -> 100
      [] OTHER                      -> 50

\* C19: after any sequence of pushes a rolling buffer holds at most its
\* capacity; a push onto a full buffer drops exactly the oldest sample and
\* keeps the others in order, a push onto any other buffer drops nothing
C19_BuffersBoundedFIFO ==
    (call # <<>> /\ call[1].op = "pushSample") =>
        LET before == call[1].contents
            cap    == BufferCapacity(call[1].buffer)
        IN  /\ Len(before) <= cap
            /\ result # <<>> =>
                 /\ Len(result[1]) <= cap
                 /\ result[1] = IF Len(before) = cap
                                THEN Append(Tail(before), call[1].sample)
                                ELSE Append(before, call[1].sample)

C19_Witness ==
    /\ Returned("pushSample")
    /\ call[1].buffer = "speedHistoryRef"
    /\ call[1].contents = <<2, 3, 4, 5, 6, 7, 8, 9, 10, 11, 12>>
    /\ result[1] = <<3, 4, 5, 6, 7, 8, 9, 10, 11, 12, 13>>

\* C20: the scoring update runs once at mount and once per timer tick: a
\* committed update does not cause another one, so no more than one update
\* is committed between two timer ticks (or before the first)
C20_AtMostOneUpdatePerTick == sinceTick <= 1

\* C21: on a tick where the classifier emits stationary or sleeping the
\* inactivity counter goes up by 1, and on a tick where it emits walking,
\* running or cycling the counter is reset to 0
C21_InactivityCounter ==
    (Returned("classifyActivity") /\ call[1].nAccel >= 10) =>
        /\ result[1].currentActivity \in {"stationary", "sleeping"}
              => result[1].inactiveTime = call[1].screen.inactiveTime + 1
        /\ result[1].currentActivity \in {"walking", "running", "cycling"}
              => result[1].inactiveTime = 0

-----------------------------------------------------------------------------
(* app/login.tsx: conversation episodes on the status screen, second by
   second.  One step of the clock stands for the time between two renders. *)

MaxTalkClock == 3

\* what detectConversation can set in one tick
TalkStates == {"silent", "talking", "conversation"}

\* the interval callback with all three conversation states
TalkTick == TickTo(TalkStates)

\* time passes on the status screen; the seconds are counted as talk when the
\* screen shows talking or conversation and the interval callback has
\* registered that state in lastConversationStateRef
Elapse ==
    /\ now + 1 <= MaxTalkClock
    /\ now' = now + 1
    /\ talkedSeconds' =
          IF /\ conversationState \in {"talking", "conversation"}
             /\ lastConversationStateRef = conversationState
          THEN talkedSeconds + 60
          ELSE talkedSeconds
    /\ UNCHANGED <<sleepVars, sensorVars, monitorVars, hookVars, calcVars, zone, engineVars,
                   screenVars, collectVars>>

NextTalk ==
    \/ Render
    \/ TalkTick
    \/ Elapse

SpecTalk == InitCollect /\ [][NextTalk]_vars

\* the screen is silent and the interval callback has registered it
SilentAgain ==
    /\ conversationState = "silent"
    /\ lastConversationStateRef = "silent"

\* C22: once the screen is silent again after talking episodes (no episode
\* of state conversation), the social minutes extracted from the events
\* handed to the aggregator are the seconds of talk divided by 60
C22_EpisodeCounted ==
    (/\ SilentAgain
     /\ \A i \in 1..Len(conversationHistory) :
            conversationHistory[i].state # "conversation")
        => calculateSocialInteractionMinutesFromConversations(
               conversationHistory, now) = Rat(talkedSeconds, 60)

\* C28: a conversation event is added to the aggregator only in a step in
\* which the conversation state changes, so a transition adds one event
\* whatever renders and ticks follow it
C28_OneEventPerTransition ==
    [][Len(conversationHistory') > Len(conversationHistory)
          => conversationState' # conversationState]_vars

\* the hours of the night
NightHours == {21, 22, 23} \cup 0..8

\* what the i-th event of a day is to contribute to the sleep hours
SleepContribution(day, i) ==
    IF /\ i < Len(day)
       /\ day[i].activity = "sleeping"
       /\ day[i].confidence >= 70
       /\ GetHours(day[i].timestamp) \in NightHours
    THEN Rat(day[i + 1].timestamp - day[i].timestamp, 60)
    ELSE R(0)

\* C23: the sleep hours of a day are the sum, over its events in history
\* order, of the hours to the next event of the day for each event but the
\* last that is sleeping with confidence >= 70 at a local hour in 21..23 or
\* 0..8; the last event and every other event contribute 0
C23_SleepHoursRule ==
    Returned("calculateSleepHoursFromActivities") =>
        LET day == EventsOfDay(call[1].activities, call[1].date)
        IN  result[1] = RSum([i \in 1..Len(day) |-> SleepContribution(day, i)], 1)

C23_Witness ==
    /\ Returned("calculateSleepHoursFromActivities")
    /\ LET day == EventsOfDay(call[1].activities, call[1].date)
       IN  /\ Len(day) = 3
           /\ day[1].activity = "sleeping" /\ day[1].confidence = 70
           /\ GetHours(day[1].timestamp) = 8
           /\ day[2].activity = "sleeping" /\ day[2].confidence = 90
           /\ GetHours(day[2].timestamp) = 9
           /\ day[3].activity = "sleeping" /\ day[3].confidence = 90
           /\ GetHours(day[3].timestamp) = 21
           /\ result[1] = Rat(1, 60)

\* the mean of a window of audio levels
WindowMean(w) == Rat(sumFrom(w, 1), Len(w))

\* the fraction of the levels of a window that exceed its mean by more than 8
WindowPeakRate(w) ==
    Rat(Cardinality({i \in 1..Len(w) : RGt(R(w[i]), RAdd(WindowMean(w), R(8)))}),
        Len(w))

\* C24: on a window of at least 20 audio levels the bands are: mean < 12
\* silent; 12 <= mean < 30 silent when peakRate < 0.25 and talking otherwise;
\* 30 <= mean < 45 talking; mean >= 45 conversation; peakRate being the
\* fraction of levels strictly greater than mean + 8
C24_ConversationBands ==
    (Returned("detectConversationOn") /\ Len(call[1].sharedAudioHistory) >= 20) =>
        LET w    == call[1].sharedAudioHistory
            mean == WindowMean(w)
            rate == WindowPeakRate(w)
        IN  /\ RLt(mean, R(12)) => result[1] = "silent"
            /\ (RGe(mean, R(12)) /\ RLt(mean, R(30)))
                  => result[1] = IF RLt(rate, Rat(1, 4)) THEN "silent" ELSE "talking"
            /\ (RGe(mean, R(30)) /\ RLt(mean, R(45))) => result[1] = "talking"
            /\ RGe(mean, R(45)) => result[1] = "conversation"

C24_Witness ==
    /\ Returned("detectConversationOn")
    /\ Len(call[1].sharedAudioHistory) = 20
    /\ call[1].state = "silent"
    /\ WindowMean(call[1].sharedAudioHistory) = R(25)
    /\ WindowPeakRate(call[1].sharedAudioHistory) = Rat(1, 4)
    /\ result[1] = "talking"

-----------------------------------------------------------------------------
(* app/login.tsx: detectSleep, called from the interval callback.  The
   callback is the closure of the render in which the interval effect last
   ran; the effect runs again when isMonitoring or conversationState changes. *)

MaxInactive == 32

MaxSleepClock == 600

MaxAccelSamples == 1

\* the audio levels the provider reports
AudioLevels == {0, 20}

\* the magnitudes the accelerometer reports, in hundredths of g
Magnitudes == {100, 120}

\* what classifyActivity sets in a tick of this specification
SleepClassifierOutputs ==
    { [activity |-> "stationary", confidence |-> 95],
      [activity |-> "walking", confidence |-> 80] }

\* currentHour >= 21 || currentHour <= 8
isNightTime(t) == GetHours(t) >= 21 \/ GetHours(t) <= 8

\* recentAccel.length > 0 && recentAccel.every(mag => Math.abs(mag - 1) < 0.1)
isStill(history) ==
    LET recentAccel == SliceLast(history, 20)
    IN  /\ Len(recentAccel) > 0
        /\ \A i \in 1..Len(recentAccel) : Abs(recentAccel[i] - 100) < 10

\* detectSleep's shouldSleep for the given inactivity count and audio level
shouldSleep(inactive, level, history, t) ==
    /\ isNightTime(t)
    /\ inactive > 30
    /\ level < 15
    /\ isStill(history)

\* the interval callback: classifyActivity, detectConversation, detectSleep
\* and the duration tracking, then the render and the effects.  detectSleep
\* reads sharedAudioLevel and possibleSleeping from the callback's closure;
\* the closure is renewed when the render changes conversationState.
SleepTick ==
    /\ Len(activityHistory) < MaxEvents
    /\ Len(conversationHistory) < MaxEvents
    /\ inactiveTimeRef < MaxInactive
    /\ \E c \in SleepClassifierOutputs, newState \in ConversationStates :
          /\ tick(c, newState)
          /\ inactiveTimeRef' =
                IF c.activity = "stationary" THEN inactiveTimeRef + 1 ELSE 0
    /\ LET should == shouldSleep(inactiveTimeRef', intervalClosure.sharedAudioLevel,
                                 accelHistoryRef, now)
       IN  possibleSleeping' =
              IF should # intervalClosure.possibleSleeping
              THEN should ELSE possibleSleeping
    /\ shouldSleepAtTick' =
          shouldSleep(inactiveTimeRef', sharedAudioLevel, accelHistoryRef, now)
    /\ intervalClosure' =
          IF conversationState' # conversationState
          THEN [possibleSleeping |-> possibleSleeping',
                sharedAudioLevel |-> sharedAudioLevel]
          ELSE intervalClosure
    /\ UNCHANGED <<talkVars, sensorVars, monitorVars, sharedAudioLevel, accelHistoryRef, hookVars, calcVars,
                   now, zone, engineVars, lastRead>>

\* the audio provider reports another level and StatusScreen renders again
AudioLevelChange ==
    /\ Len(activityHistory) < MaxEvents
    /\ Len(conversationHistory) < MaxEvents
    /\ \E level \in AudioLevels \ {sharedAudioLevel} : sharedAudioLevel' = level
    /\ dataEffects(currentActivity, activityConfidence, conversationState,
                   lastConversationStateRef, conversationDurationRef, now)
    /\ UNCHANGED <<talkVars, sensorVars, monitorVars, possibleSleeping, intervalClosure, inactiveTimeRef,
                   accelHistoryRef, shouldSleepAtTick, hookVars, calcVars, now, zone,
                   engineVars, screenVars, lastRead>>

\* the accelerometer listener: one more magnitude, and a render
AccelSample ==
    /\ Len(activityHistory) < MaxEvents
    /\ Len(conversationHistory) < MaxEvents
    /\ Len(accelHistoryRef) < MaxAccelSamples
    /\ \E magnitude \in Magnitudes :
          accelHistoryRef' = Append(SliceLast(accelHistoryRef, 100), magnitude)
    /\ dataEffects(currentActivity, activityConfidence, conversationState,
                   lastConversationStateRef, conversationDurationRef, now)
    /\ UNCHANGED <<talkVars, sensorVars, monitorVars, possibleSleeping, sharedAudioLevel, intervalClosure,
                   inactiveTimeRef, shouldSleepAtTick, hookVars, calcVars, now, zone,
                   engineVars, screenVars, lastRead>>

\* ten hours pass: night becomes day
SleepWait ==
    /\ now + 600 <= MaxSleepClock
    /\ now' = now + 600
    /\ UNCHANGED <<auxVars, hookVars, calcVars, zone, engineVars, screenVars,
                   collectVars>>

NextSleep ==
    \/ SleepTick
    \/ AudioLevelChange
    \/ AccelSample
    \/ SleepWait

SpecSleep == InitCollect /\ [][NextSleep]_vars

\* C25: after every tick possibleSleeping is true exactly if the four
\* conditions held at that tick: night hour, more than 30 inactive ticks,
\* current audio level below 15, and a non-empty still acceleration window
C25_SleepHardGate == possibleSleeping = shouldSleepAtTick

-----------------------------------------------------------------------------
(* context/SensorsContext.tsx and lib/backgroundTasks.ts: the start/stop
   effect of SensorsProvider and background location tracking.  An async
   function runs up to its first await when it is called; the native side
   answers the calls in the order they were issued. *)

MaxToggles == 3

\* the first native call of startBackgroundLocationTracking and of
\* stopBackgroundLocationTracking: TaskManager.isTaskRegisteredAsync
startBackgroundLocationTracking == [call |-> "isTaskRegistered", for |-> "start"]

stopBackgroundLocationTracking == [call |-> "isTaskRegistered", for |-> "stop"]

\* the native calls one run of the start/stop effect issues: the cleanup of
\* the previous run, then the body for the new state
startStopEffect(enabled, permission) ==
    <<stopBackgroundLocationTracking>>
    \o (IF enabled
        THEN (IF permission THEN <<startBackgroundLocationTracking>> ELSE <<>>)
        ELSE <<stopBackgroundLocationTracking>>)

\* the user switches the sensors on or off
ToggleSensors ==
    /\ nToggles < MaxToggles
    /\ nToggles' = nToggles + 1
    /\ sensorsEnabled' = ~sensorsEnabled
    /\ nativeQueue' = nativeQueue \o startStopEffect(sensorsEnabled', locationPermission)
    /\ UNCHANGED <<locationPermission, taskRegistered>>
    /\ UNCHANGED <<talkVars, sleepVars, monitorVars, hookVars, calcVars, now, zone, engineVars,
                   screenVars, collectVars>>

\* requestPermissions ends with setLocationPermission(true)
GrantPermission ==
    /\ ~locationPermission
    /\ locationPermission' = TRUE
    /\ nativeQueue' = nativeQueue \o startStopEffect(sensorsEnabled, TRUE)
    /\ UNCHANGED <<sensorsEnabled, taskRegistered, nToggles>>
    /\ UNCHANGED <<talkVars, sleepVars, monitorVars, hookVars, calcVars, now, zone, engineVars,
                   screenVars, collectVars>>

\* the native side answers the oldest call; the function that awaited it
\* runs on to its next await or its end
NativeAnswer ==
    /\ nativeQueue # <<>>
    /\ LET head == Head(nativeQueue)
           rest == Tail(nativeQueue)
       IN  CASE head.call = "isTaskRegistered" ->
                   /\ nativeQueue' =
                         IF head.for = "start" /\ ~taskRegistered
                         THEN Append(rest, [call |-> "startLocationUpdates", for |-> "start"])
                         ELSE IF head.for = "stop" /\ taskRegistered
                         THEN Append(rest, [call |-> "stopLocationUpdates", for |-> "stop"])
                         ELSE rest
                   /\ UNCHANGED taskRegistered
             [] head.call = "startLocationUpdates" ->
                   /\ taskRegistered' = TRUE
                   /\ nativeQueue' = rest
             [] head.call = "stopLocationUpdates" ->
                   /\ taskRegistered' = FALSE
                   /\ nativeQueue' = rest
    /\ UNCHANGED <<sensorsEnabled, locationPermission, nToggles>>
    /\ UNCHANGED <<talkVars, sleepVars, monitorVars, hookVars, calcVars, now, zone, engineVars,
                   screenVars, collectVars>>

\* the app starts; the task may still be registered from the run before
InitSensors ==
    /\ Constructed
    /\ StatusScreenMounted
    /\ MonitoringMounted
    /\ SensorsMounted
    /\ taskRegistered \in BOOLEAN
    /\ NoCall
    /\ session = FALSE
    /\ storage = [scores |-> Missing, daily |-> Missing]
    /\ remote = [score |-> <<>>, daily |-> {}]

NextSensors ==
    \/ ToggleSensors
    \/ GrantPermission
    \/ NativeAnswer

SpecSensors == InitSensors /\ [][NextSensors]_vars

\* C26: with location permission granted and no start or stop call pending,
\* background location tracking is registered exactly if sensorsEnabled
C26_ToggleConsistency ==
    (locationPermission /\ nativeQueue = <<>>) => (taskRegistered <=> sensorsEnabled)

-----------------------------------------------------------------------------
(* app/login.tsx: startMonitoring and stopMonitoring, called by the focus
   effect of StatusScreen (both permissions granted).  A subscription is
   named by the number of the startMonitoring call that created it. *)

MaxStarts == 3

\* subscription.remove() for the subscription a ref holds, if it holds one
removed(active, sensor, ref) ==
    IF ref = <<>> THEN active
    ELSE active \ {[sensor |-> sensor, id |-> ref[1]]}

\* the screen gains focus: startMonitoring runs up to its await of
\* Location.watchPositionAsync
Focus ==
    /\ ~focused
    /\ nStarts < MaxStarts
    /\ focused' = TRUE
    /\ nStarts' = nStarts + 1
    /\ isMonitoring' = TRUE
    /\ activeSubscriptions' =
          activeSubscriptions \cup {[sensor |-> "accelerometer", id |-> nStarts']}
    /\ accelSubscription' = <<nStarts'>>
    /\ pendingStarts' = pendingStarts \cup {nStarts'}
    /\ UNCHANGED locationSubscription
    /\ UNCHANGED <<talkVars, sleepVars, sensorVars, hookVars, calcVars, now, zone,
                   engineVars, screenVars, collectVars>>

\* the screen loses focus: the effect's cleanup calls stopMonitoring
Blur ==
    /\ focused
    /\ focused' = FALSE
    /\ isMonitoring' = FALSE
    /\ activeSubscriptions' =
          removed(removed(activeSubscriptions, "accelerometer", accelSubscription),
                  "location", locationSubscription)
    /\ UNCHANGED <<accelSubscription, locationSubscription, pendingStarts, nStarts>>
    /\ UNCHANGED <<talkVars, sleepVars, sensorVars, hookVars, calcVars, now, zone,
                   engineVars, screenVars, collectVars>>

\* watchPositionAsync resolves for a startMonitoring call, which stores the
\* subscription and sets isMonitoring
WatchResolves ==
    /\ \E id \in pendingStarts :
          /\ pendingStarts' = pendingStarts \ {id}
          /\ activeSubscriptions' =
                activeSubscriptions \cup {[sensor |-> "location", id |-> id]}
          /\ locationSubscription' = <<id>>
    /\ isMonitoring' = TRUE
    /\ UNCHANGED <<focused, accelSubscription, nStarts>>
    /\ UNCHANGED <<talkVars, sleepVars, sensorVars, hookVars, calcVars, now, zone,
                   engineVars, screenVars, collectVars>>

\* watchPositionAsync rejects: the catch logs, then isMonitoring is set
WatchRejects ==
    /\ \E id \in pendingStarts : pendingStarts' = pendingStarts \ {id}
    /\ isMonitoring' = TRUE
    /\ UNCHANGED <<focused, accelSubscription, locationSubscription,
                   activeSubscriptions, nStarts>>
    /\ UNCHANGED <<talkVars, sleepVars, sensorVars, hookVars, calcVars, now, zone,
                   engineVars, screenVars, collectVars>>

NextMonitor ==
    \/ Focus
    \/ Blur
    \/ WatchResolves
    \/ WatchRejects

SpecMonitor == InitCollect /\ [][NextMonitor]_vars

\* C30: once stopMonitoring has run and no startMonitoring call is pending,
\* no accelerometer or location subscription of the screen is active, and at
\* any time at most one subscription per sensor is active
C30_MonitoringTeardown ==
    /\ (~focused /\ pendingStarts = {}) => activeSubscriptions = {}
    /\ \A a, b \in activeSubscriptions : a.sensor = b.sensor => a = b

\* two events at 23:00 and 23:10 of day 1, the first with the given label
\* and full confidence
NightEvents(activity) ==
    << [timestamp |-> WallToUTC(2820), activity |-> activity, confidence |-> 100],
       [timestamp |-> WallToUTC(2830), activity |-> "walking", confidence |-> 80] >>

\* C27: a tick whose statistics meet the stationary rule is classified
\* stationary whatever the inactivity count, and an event with that label
\* yields no sleep hours; sleeping is emitted only with accelStd < 0.03,
\* speedMean < 0.2, more than 30 inactive ticks and a deviation from gravity
\* of at least 0.1
C27_StillDeviceIsStationary ==
    (Returned("classifyActivity") /\ call[1].nAccel >= 10) =>
        LET st == call[1].stats
        IN  /\ ( /\ RLt(st.accelStd, Rat(5, 100))
                 /\ RLt(st.speedMean, Rat(3, 10))
                 /\ RLt(st.deviationFromGravity, Rat(1, 10)) )
               => /\ result[1].currentActivity = "stationary"
                  /\ calculateSleepHoursFromActivities(
                         NightEvents(result[1].currentActivity),
                         WallToUTC(2820)) = R(0)
            /\ result[1].currentActivity = "sleeping"
               => /\ RLt(st.accelStd, Rat(3, 100))
                  /\ RLt(st.speedMean, Rat(2, 10))
                  /\ call[1].screen.inactiveTime > 30
                  /\ RGe(st.deviationFromGravity, Rat(1, 10))

C27_Witness ==
    /\ Returned("classifyActivity")
    /\ call[1].nAccel = 30
    /\ call[1].stats.accelStd = R(0)
    /\ call[1].stats.speedMean = R(0)
    /\ call[1].stats.deviationFromGravity = R(0)
    /\ call[1].screen.inactiveTime = 150
    /\ result[1].currentActivity = "stationary"
    /\ result[1].inactiveTime = 151

\* C29: when an update has metrics to store, the date key of the day's
\* scores is the local calendar day of the instant of the update, the day
\* whose events the metrics integrate
C29_DayKeyIsLocalDay ==
    ( /\ Returned("todayUpdate")
      /\ RGt(result[1].metrics.physicalActivityMinutes, R(0)) )
        => /\ result[1].metrics.physicalActivityMinutes =
                 RSum([i \in 1..Len(EventsOfDay(call[1].activities, call[1].at)) |->
                         ActiveContribution(
                             EventsOfDay(call[1].activities, call[1].at), i)], 1)
           /\ result[1].todayScores.date = LocalDay(call[1].at)
====
